---- MODULE Spec2Model ----
(***************************************************************************)
(* EPON port statistics tool v2.1: the text parser parse_epon_data, the    *)
(* report aggregation of generate_excel_report, process_task, the SSH      *)
(* collection and SSHConnection.get_full_output; and, of the historical    *)
(* code, the v1.4 parser and parse_onu_data of onu_status_counter.py.      *)
(*                                                                         *)
(* A text line is a sequence of one-character strings, so that strip,      *)
(* substring tests, the two regular expressions and the whitespace split   *)
(* are computed on the characters as the Python code computes them.        *)
(***************************************************************************)
EXTENDS Integers, Sequences, FiniteSets, TLC

VARIABLES
    file,              \* the input document: encoding -> decode outcome
    pc,                \* position of parse_epon_data
    enc,               \* loop variable of the encoding loop
    content,           \* result of f.readlines(), or None
    idx,               \* number of lines of content already consumed by the scan
    current_slot,      \* None or int
    current_pon,       \* None or int
    slot_data,         \* slot -> port -> counts
    error,             \* exception that left parse_epon_data
    rpc,               \* position of generate_excel_report
    slot_num,          \* loop variable of the slot loop of the report
    ws,                \* rendered slot blocks of the worksheet
    total_idle_count,  \* running idle total of the report
    stat_cell,         \* number written into the statistics row, or None
    saved,             \* wb.save has run
    output_path,       \* parameter output_path of generate_excel_report
    outputs,           \* the output directory: file name -> saved report
    input_path,        \* what process_task is given: a file or a directory listing
    files,             \* the list files of process_task
    fi,                \* number of the file the loop of process_task is at
    tpc,               \* position of process_task
    calls,             \* number of calls of parse_epon_data made on the file
    first,             \* outcome of the first call of parse_epon_data
    threads,           \* the frames of concurrently running calls of parse_epon_data
    v14,               \* the frame of a call of the v1.4 parse_epon_data
    onu_call,          \* the frame of a call of parse_onu_data of the historical script
    devices,           \* the device list given to ssh_collection_task: how each device behaves
    task,              \* the frame of ssh_collection_task: position and locals
    stop_flag,         \* self.stop_flag
    ssh_btn,           \* state of the start button
    stop_ssh_btn,      \* state of the stop button
    after_queue,       \* callbacks queued with root.after and not yet run by Tk
    conns,             \* devices whose SSH connection is open
    disk,              \* devices whose output file this run has saved
    attempted,         \* devices this run has tried to connect to
    dialog,            \* the completion dialog of this run has been shown
    live,              \* number of collection threads that have not ended
    runs,              \* number of collection threads started so far
    late_ops,          \* connections, commands and dialogs begun while stop_flag was set
    out_call           \* the frame of a call of SSHConnection.get_full_output

v14Vars == <<v14>>

onuVars == <<onu_call>>

sshVars == <<devices, task, stop_flag, ssh_btn, stop_ssh_btn, after_queue, conns, disk,
             attempted, dialog, live, runs, late_ops>>

outVars == <<out_call>>

\* the state of the programs around the v2.1 parser and report
laterVars == <<v14Vars, onuVars, sshVars, outVars>>

vars == <<file, pc, enc, content, idx, current_slot, current_pon, slot_data, error,
          rpc, slot_num, ws, total_idle_count, stat_cell, saved, output_path, outputs,
          input_path, files, fi, tpc, calls, first, threads, laterVars>>

parseVars == <<file, pc, enc, content, idx, current_slot, current_pon, slot_data, error>>

reportVars == <<rpc, slot_num, ws, total_idle_count, stat_cell, saved, output_path, outputs>>

taskVars == <<input_path, files, fi, tpc>>

callVars == <<calls, first>>

threadVars == <<threads>>

\* everything outside one call of parse_epon_data and generate_excel_report
envVars == <<taskVars, callVars, threadVars, laterVars>>

\* everything but the call of the v1.4 parser
exceptV14 == <<parseVars, reportVars, taskVars, callVars, threadVars, onuVars, sshVars, outVars>>

\* everything but the call of parse_onu_data
exceptOnu == <<parseVars, reportVars, taskVars, callVars, threadVars, v14Vars, sshVars, outVars>>

\* everything but the SSH collection
exceptSsh == <<parseVars, reportVars, taskVars, callVars, threadVars, v14Vars, onuVars, outVars>>

\* everything but the call of get_full_output
exceptOut == <<parseVars, reportVars, taskVars, callVars, threadVars, v14Vars, onuVars, sshVars>>

----------------------------------------------------------------------------
(* Bounds of the model *)

\* longest document, in lines
MaxLines == 4

----------------------------------------------------------------------------
(* Program constants *)

\* Python None for current_slot, current_pon and stat_cell (never a parsed int)
None == -1

MinSlot == 2

MaxSlot == 7

MinPon == 1

MaxPon == 24

Slots == MinSlot..MaxSlot

Pons == MinPon..MaxPon

\* the keys '在线', '离线', '静默' of a cell
Keys == {"online", "offline", "silent"}

\* faulty variant of Encodings: gbk is tried before utf-8
EncodingsGbkFirst == <<"gbk", "utf-8", "gb2312">>

\* line 521: the encodings, in the order they are tried
Encodings == <<"utf-8", "gbk", "gb2312">>

----------------------------------------------------------------------------
(* Text primitives *)

\* what Python's str.strip() and the regex class \s treat as whitespace (ASCII)
WhiteSpace == {" ", "\t", "\n", "\r"}

Digits == {"0", "1", "2", "3", "4", "5", "6", "7", "8", "9"}

DigitVal(c) ==
    CASE c = "0" -> 0 [] c = "1" -> 1 [] c = "2" -> 2 [] c = "3" -> 3 [] c = "4" -> 4
      [] c = "5" -> 5 [] c = "6" -> 6 [] c = "7" -> 7 [] c = "8" -> 8 [] c = "9" -> 9

SetMin(S) == CHOOSE x \in S : \A y \in S : x <= y

SetMax(S) == CHOOSE x \in S : \A y \in S : x >= y

\* int(s) of a string of decimal digits
RECURSIVE int(_)
int(s) ==
    IF s = <<>> THEN 0
    ELSE int(SubSeq(s, 1, Len(s) - 1)) * 10 + DigitVal(s[Len(s)])

\* line.strip()
strip(s) ==
    LET keep == {i \in 1..Len(s) : s[i] \notin WhiteSpace}
    IN  IF keep = {} THEN <<>> ELSE SubSeq(s, SetMin(keep), SetMax(keep))

\* pat occurs in s at position i
StartsAt(s, i, pat) ==
    /\ i >= 1
    /\ i + Len(pat) - 1 <= Len(s)
    /\ SubSeq(s, i, i + Len(pat) - 1) = pat

\* pat in s
Contains(s, pat) == \E i \in 1..(Len(s) - Len(pat) + 1) : StartsAt(s, i, pat)

\* s.startswith(pat)
startswith(s, pat) == StartsAt(s, 1, pat)

\* last index of the maximal run of characters of class C that starts at i
\* (i - 1 when s[i] is not in C): the greedy match of C+ at i
RunEnd(s, i, C) ==
    LET stop == {j \in i..Len(s) : s[j] \notin C}
    IN  IF stop = {} THEN Len(s) ELSE SetMin(stop) - 1

\* re.split(r'\s+', s)
RECURSIVE split(_)
split(s) ==
    LET ws_at == {i \in 1..Len(s) : s[i] \in WhiteSpace}
    IN  IF ws_at = {} THEN <<s>>
        ELSE LET i == SetMin(ws_at)
                 j == RunEnd(s, i, WhiteSpace)
             IN  <<SubSeq(s, 1, i - 1)>> \o split(SubSeq(s, j + 1, Len(s)))

----------------------------------------------------------------------------
(* Literals of the parser *)

\* "dis onu slot"
SLOT_MARKER == <<"d", "i", "s", " ", "o", "n", "u", " ", "s", "l", "o", "t">>

\* "Olt"
OLT == <<"O", "l", "t">>

\* "/0/"
SLASH_0_SLASH == <<"/", "0", "/">>

\* ".xlsx"
XLSX == <<".", "x", "l", "s", "x">>

\* "out.xlsx"
OUT_XLSX == <<"o", "u", "t", ".", "x", "l", "s", "x">>

\* ".txt"
DOT_TXT == <<".", "t", "x", "t">>

\* "State"
KW_State == <<"S", "t", "a", "t", "e">>

\* "MAC"
KW_MAC == <<"M", "A", "C">>

\* "LOID"
KW_LOID == <<"L", "O", "I", "D">>

\* "LLID"
KW_LLID == <<"L", "L", "I", "D">>

\* "Port"
KW_Port == <<"P", "o", "r", "t">>

\* "Up"
TOK_Up == <<"U", "p">>

\* "Offline"
TOK_Offline == <<"O", "f", "f", "l", "i", "n", "e">>

\* "Silent"
TOK_Silent == <<"S", "i", "l", "e", "n", "t">>

----------------------------------------------------------------------------
(* parse_epon_data: helpers *)

\* slot_data = {s: {p: {'在线': 0, '离线': 0, '静默': 0} ...} ...}
EmptySlotData == [s \in Slots |-> [p \in Pons |-> [k \in Keys |-> 0]]]

\* faulty variant of Truthy: None counts as true
TruthyNotZero(x) == x # 0

\* truth value of an Optional[int] in a condition: None and 0 are false
Truthy(x) == x # None /\ x # 0

\* re.search(r'dis onu slot\s+(\d+)', line): start positions of a match
SlotMatchAt(line, i) ==
    /\ StartsAt(line, i, SLOT_MARKER)
    /\ LET w == RunEnd(line, i + Len(SLOT_MARKER), WhiteSpace)
       IN  /\ w >= i + Len(SLOT_MARKER)
           /\ RunEnd(line, w + 1, Digits) >= w + 1

\* int(match.group(1)) of the leftmost match, or None when there is no match
SlotNumber(line) ==
    LET at == {i \in 1..Len(line) : SlotMatchAt(line, i)}
    IN  IF at = {} THEN None
        ELSE LET i == SetMin(at)
                 w == RunEnd(line, i + Len(SLOT_MARKER), WhiteSpace)
             IN  int(SubSeq(line, w + 1, RunEnd(line, w + 1, Digits)))

\* re.search(r'Olt\d+/0/(\d+)', line): start positions of a match
PonMatchAt(line, i) ==
    /\ StartsAt(line, i, OLT)
    /\ LET d == RunEnd(line, i + Len(OLT), Digits)
       IN  /\ d >= i + Len(OLT)
           /\ StartsAt(line, d + 1, SLASH_0_SLASH)
           /\ RunEnd(line, d + 1 + Len(SLASH_0_SLASH), Digits) >= d + 1 + Len(SLASH_0_SLASH)

\* int(match.group(1)) of the leftmost match, or None when there is no match
PonNumber(line) ==
    LET at == {i \in 1..Len(line) : PonMatchAt(line, i)}
    IN  IF at = {} THEN None
        ELSE LET i == SetMin(at)
                 d == RunEnd(line, i + Len(OLT), Digits)
                 g == d + 1 + Len(SLASH_0_SLASH)
             IN  int(SubSeq(line, g, RunEnd(line, g, Digits)))

\* faulty variant of IsSlotMarker: the line must be the marker and its number alone
IsSlotMarkerWholeLine(line) ==
    /\ SlotMatchAt(line, 1)
    /\ RunEnd(line, RunEnd(line, 1 + Len(SLOT_MARKER), WhiteSpace) + 1, Digits) = Len(line)

\* 'dis onu slot' in line
IsSlotMarker(line) == Contains(line, SLOT_MARKER)

\* faulty variant of IsPonHeader: the tests of current_slot are missing
IsPonHeaderAnySlot(cs, line) ==
    /\ Contains(line, OLT)
    /\ Contains(line, SLASH_0_SLASH)

\* current_slot and 2 <= current_slot <= 7 and 'Olt' in line and '/0/' in line
IsPonHeader(cs, line) ==
    /\ Truthy(cs)
    /\ MinSlot <= cs /\ cs <= MaxSlot
    /\ Contains(line, OLT)
    /\ Contains(line, SLASH_0_SLASH)

\* faulty variant of IsCandidate: the test of the leading '-' is missing
IsCandidateDashAllowed(cs, cp, line) ==
    /\ Truthy(cs)
    /\ Truthy(cp)
    /\ line # <<>>

\* current_slot and current_pon and line and not line.startswith('-')
IsCandidate(cs, cp, line) ==
    /\ Truthy(cs)
    /\ Truthy(cp)
    /\ line # <<>>
    /\ ~startswith(line, <<"-">>)

\* faulty variant of HasKeyword: 'MAC' is missing from the keyword list
HasKeywordNoMAC(line) ==
    \E k \in {KW_State, KW_LOID, KW_LLID, KW_Port} : Contains(line, k)

\* any(k in line for k in ['State', 'MAC', 'LOID', 'LLID', 'Port'])
HasKeyword(line) ==
    \E k \in {KW_State, KW_MAC, KW_LOID, KW_LLID, KW_Port} : Contains(line, k)

\* faulty variant of StateKey: 'Silent' is counted as offline
StateKeySilentAsOffline(state) ==
    IF state = TOK_Up THEN "online"
    ELSE IF state = TOK_Offline \/ state = TOK_Silent THEN "offline"
    ELSE "None"

\* key = '在线' if state == 'Up' else '离线' if state == 'Offline'
\*       else '静默' if state == 'Silent' else None
StateKey(state) ==
    IF state = TOK_Up THEN "online"
    ELSE IF state = TOK_Offline THEN "offline"
    ELSE IF state = TOK_Silent THEN "silent"
    ELSE "None"

\* faulty variant of LineKey: the state is taken from the last part, parts[-1]
LineKeyLastPart(line) ==
    IF HasKeyword(line) THEN "None"
    ELSE LET parts == split(line)
         IN  IF Len(parts) >= 2 THEN StateKey(parts[Len(parts)]) ELSE "None"

\* the key a candidate line increments: parts[-2] mapped by StateKey, "None" when
\* the line is a header row, has fewer than two parts or an unknown state
LineKey(line) ==
    IF HasKeyword(line) THEN "None"
    ELSE LET parts == split(line)
         IN  IF Len(parts) >= 2 THEN StateKey(parts[Len(parts) - 1]) ELSE "None"

\* slot_data[current_slot][current_pon][key] raises KeyError
NoCell(cs, cp) == cs \notin Slots \/ cp \notin Pons

\* faulty variant of Increment: the counter is decremented
IncrementDown(sd, cs, cp, key) ==
    [sd EXCEPT ![cs][cp][key] = @ - 1]

\* faulty variant of Increment: the counter goes up by 2
IncrementTwice(sd, cs, cp, key) ==
    [sd EXCEPT ![cs][cp][key] = @ + 2]

\* slot_data[current_slot][current_pon][key] += 1
Increment(sd, cs, cp, key) ==
    [sd EXCEPT ![cs][cp][key] = @ + 1]

----------------------------------------------------------------------------
(* parse_epon_data: steps *)

DecodeError == [ok |-> FALSE, lines |-> <<>>]

NoContent == [none |-> TRUE, lines |-> <<>>]

\* encodings of Encodings, in order, under which the file decodes
Decoding(f) == {i \in 1..Len(Encodings) : f[Encodings[i]].ok}

\* lines 520-529: the encoding loop and the check of content
ReadFile ==
    /\ pc = "start"
    /\ LET good == Decoding(file)
       IN  IF good = {}
           THEN /\ enc' = Encodings[Len(Encodings)]
                /\ content' = NoContent
           ELSE /\ enc' = Encodings[SetMin(good)]
                /\ content' = [none |-> FALSE, lines |-> file[Encodings[SetMin(good)]].lines]
    /\ IF content'.none \/ content'.lines = <<>>
       THEN pc' = "raised" /\ error' = "ValueError"
       ELSE pc' = "scan" /\ error' = error
    /\ UNCHANGED <<file, idx, current_slot, current_pon, slot_data>>
    /\ UNCHANGED reportVars
    /\ UNCHANGED envVars

\* lines 531-551: one iteration of the loop over content
ScanLine ==
    /\ pc = "scan"
    /\ idx < Len(content.lines)
    /\ LET line == strip(content.lines[idx + 1])
       IN  IF IsSlotMarker(line)
           THEN /\ current_slot' = IF SlotNumber(line) # None THEN SlotNumber(line)
                                   ELSE current_slot
                /\ UNCHANGED <<current_pon, slot_data, pc, error>>
                /\ idx' = idx + 1
           ELSE IF IsPonHeader(current_slot, line)
           THEN /\ current_pon' = IF PonNumber(line) # None THEN PonNumber(line)
                                  ELSE current_pon
                /\ UNCHANGED <<current_slot, slot_data, pc, error>>
                /\ idx' = idx + 1
           ELSE IF IsCandidate(current_slot, current_pon, line) /\ LineKey(line) # "None"
           THEN IF NoCell(current_slot, current_pon)
                THEN /\ pc' = "raised"
                     /\ error' = "KeyError"
                     /\ UNCHANGED <<current_slot, current_pon, slot_data, idx>>
                ELSE /\ slot_data' = Increment(slot_data, current_slot, current_pon,
                                               LineKey(line))
                     /\ idx' = idx + 1
                     /\ UNCHANGED <<current_slot, current_pon, pc, error>>
           ELSE /\ idx' = idx + 1
                /\ UNCHANGED <<current_slot, current_pon, slot_data, pc, error>>
    /\ UNCHANGED <<file, enc, content>>
    /\ UNCHANGED reportVars
    /\ UNCHANGED envVars

\* line 552: return slot_data
Return ==
    /\ pc = "scan"
    /\ idx = Len(content.lines)
    /\ pc' = "returned"
    /\ UNCHANGED <<file, enc, content, idx, current_slot, current_pon, slot_data, error>>
    /\ UNCHANGED reportVars
    /\ UNCHANGED envVars

(* Input lines *)

\* "dis onu slot 3\n"
LineSlot3 == <<"d", "i", "s", " ", "o", "n", "u", " ", "s", "l", "o", "t", " ", "3", "\n">>

\* "dis onu slot 9\n"
LineSlot9 == <<"d", "i", "s", " ", "o", "n", "u", " ", "s", "l", "o", "t", " ", "9", "\n">>

\* " Olt3/0/5\n"
LineOlt5 == <<" ", "O", "l", "t", "3", "/", "0", "/", "5", "\n">>

\* "Olt3/0/25"
LineOlt25 == <<"O", "l", "t", "3", "/", "0", "/", "2", "5">>

\* "Olt3/0/0"
LineOlt0 == <<"O", "l", "t", "3", "/", "0", "/", "0">>

\* "a Up 1"
LineUp == <<"a", " ", "U", "p", " ", "1">>

\* "a Offline 1"
LineOffline == <<"a", " ", "O", "f", "f", "l", "i", "n", "e", " ", "1">>

\* "a Silent 1"
LineSilent == <<"a", " ", "S", "i", "l", "e", "n", "t", " ", "1">>

\* "a Disabled 1"
LineDisabled == <<"a", " ", "D", "i", "s", "a", "b", "l", "e", "d", " ", "1">>

\* "a up 1"
LineLowerUp == <<"a", " ", "u", "p", " ", "1">>

\* "MAC Up 1"
LineNoiseUp == <<"M", "A", "C", " ", "U", "p", " ", "1">>

\* "display onu slot 3"
LineDisplaySlot3 == <<"d", "i", "s", "p", "l", "a", "y", " ", "o", "n", "u", " ", "s", "l", "o", "t", " ", "3">>

\* "dis onu slot 3"
LineDisSlot3 == <<"d", "i", "s", " ", "o", "n", "u", " ", "s", "l", "o", "t", " ", "3">>

\* "-- Olt3/0/5 --"
LineDashOlt5 == <<"-", "-", " ", "O", "l", "t", "3", "/", "0", "/", "5", " ", "-", "-">>

\* "aaaa-bbbb-cccc Onu3/5/1 Up 101"
LineOnuUp == <<"a", "a", "a", "a", "-", "b", "b", "b", "b", "-", "c", "c", "c", "c", " ", "O", "n", "u", "3", "/", "5", "/", "1", " ", "U", "p", " ", "1", "0", "1">>

\* "aaaa-bbbb-cccd Onu3/5/2 Offline 102"
LineOnuOffline == <<"a", "a", "a", "a", "-", "b", "b", "b", "b", "-", "c", "c", "c", "d", " ", "O", "n", "u", "3", "/", "5", "/", "2", " ", "O", "f", "f", "l", "i", "n", "e", " ", "1", "0", "2">>

\* "MAC LLID State Port"
LineHeaderRow == <<"M", "A", "C", " ", "L", "L", "I", "D", " ", "S", "t", "a", "t", "e", " ", "P", "o", "r", "t">>

\* "dis onu slot 4\n"
LineSlot4 == <<"d", "i", "s", " ", "o", "n", "u", " ", "s", "l", "o", "t", " ", "4", "\n">>

\* "dis onu slot 4 Olt4/0/7 Up 1"
LineSlotOltUp == <<"d", "i", "s", " ", "o", "n", "u", " ", "s", "l", "o", "t", " ", "4", " ", "O", "l", "t", "4", "/", "0", "/", "7", " ", "U", "p", " ", "1">>

\* "Olt3/0/7 Up 1"
LineOltUp == <<"O", "l", "t", "3", "/", "0", "/", "7", " ", "U", "p", " ", "1">>

\* "Up\n"
LineOnlyUp == <<"U", "p", "\n">>

\* "- Up 1\n"
LineDashUp == <<"-", " ", "U", "p", " ", "1", "\n">>

\* "a 1 Up\n"
LineLastUp == <<"a", " ", "1", " ", "U", "p", "\n">>

\* "Up a 1\n"
LineFirstUp == <<"U", "p", " ", "a", " ", "1", "\n">>

\* "\n"
LineBlank == <<"\n">>

\* "-----\n"
LineDashes == <<"-", "-", "-", "-", "-", "\n">>

----------------------------------------------------------------------------
(* generate_excel_report *)

\* range(a, b, step) of Python, step > 0
Range(a, b, step) == {x \in a..(b - 1) : (x - a) % step = 0}

\* for group in [range(1, 24, 2), range(2, 25, 2)]
Groups == <<Range(MinPon, MaxPon, 2), Range(MinPon + 1, MaxPon + 1, 2)>>

\* faulty variant of has_data: only the online count is tested
has_data_online_only(slot_info) ==
    \E pon_id \in Pons : slot_info[pon_id]["online"] > 0

\* has_data of lines 590-595: some PON of the slot has a non-zero count
has_data(slot_info) ==
    \E pon_id \in Pons :
        \/ slot_info[pon_id]["online"] > 0
        \/ slot_info[pon_id]["offline"] > 0
        \/ slot_info[pon_id]["silent"] > 0

\* faulty variant of is_idle: a PON is idle only when all three counts are 0
is_idle_no_onu(slot_info, pon_id) ==
    /\ slot_info[pon_id]["online"] = 0
    /\ slot_info[pon_id]["offline"] = 0
    /\ slot_info[pon_id]["silent"] = 0

\* is_idle = slot_info.get(pon_id, {}).get('在线', 0) == 0
is_idle(slot_info, pon_id) == slot_info[pon_id]["online"] = 0

\* the cells written for one PON of a rendered slot: the rows 在线, 离线, 静默
\* and the row 空闲 ("yes" for 是, "no" for 否)
PonColumn(slot_info, pon_id) ==
    [online  |-> slot_info[pon_id]["online"],
     offline |-> slot_info[pon_id]["offline"],
     silent  |-> slot_info[pon_id]["silent"],
     idle    |-> IF is_idle(slot_info, pon_id) THEN "yes" ELSE "no"]

\* the block of a rendered slot: both groups of twelve PON columns
SlotBlock(slot_info) ==
    [pon_id \in Groups[1] \cup Groups[2] |-> PonColumn(slot_info, pon_id)]

\* faulty variant of IdleIncrements: only the first group of PONs is counted
IdleIncrementsFirstGroup(slot_info) ==
    Cardinality({pon_id \in Groups[1] : is_idle(slot_info, pon_id)})

\* number of times total_idle_count += 1 runs while a slot block is written
IdleIncrements(slot_info) ==
    Cardinality({pon_id \in Groups[1] : is_idle(slot_info, pon_id)})
      + Cardinality({pon_id \in Groups[2] : is_idle(slot_info, pon_id)})

\* output_filename of line 504: os.path.splitext(os.path.basename(file_path))[0]
\* + ".xlsx", for a path without directory part
OutputFilename(name) ==
    LET dots == {i \in 1..Len(name) : name[i] = "."}
    IN  IF dots # {} /\ (\E j \in 1..(SetMax(dots) - 1) : name[j] # ".")
        THEN SubSeq(name, 1, SetMax(dots) - 1) \o XLSX
        ELSE name \o XLSX

\* the call at line 505 with the file name of line 504, and lines 556-583:
\* workbook set-up, total_idle_count = 0
ReportStart ==
    /\ pc = "returned"
    /\ rpc = "idle"
    /\ rpc' = "loop"
    /\ slot_num' = MinSlot
    /\ ws' = [s \in {} |-> <<>>]
    /\ total_idle_count' = 0
    /\ output_path' = IF tpc = "loop" THEN OutputFilename(files[fi].name) ELSE output_path
    /\ UNCHANGED <<stat_cell, saved, outputs>>
    /\ UNCHANGED parseVars
    /\ UNCHANGED envVars

\* faulty variant of AfterGet: the key is removed, as by dict.pop
AfterPop(d, k) == [a \in DOMAIN d \ {k} |-> d[a]]

\* the dict d after d.get(k, default) of lines 587, 592, 615, 624: get stores nothing
AfterGet(d, k) == d

\* lines 586-631: one iteration of the loop over range(2, 8)
ReportSlot ==
    /\ rpc = "loop"
    /\ slot_num <= MaxSlot
    /\ LET slot_info == slot_data[slot_num]
       IN  IF ~has_data(slot_info)
           THEN UNCHANGED <<ws, total_idle_count>>
           ELSE /\ ws' = ws @@ (slot_num :> SlotBlock(slot_info))
                /\ total_idle_count' = total_idle_count + IdleIncrements(slot_info)
    /\ slot_num' = slot_num + 1
    /\ slot_data' = AfterGet(slot_data, slot_num)
    /\ UNCHANGED <<rpc, stat_cell, saved, output_path, outputs>>
    /\ UNCHANGED <<file, pc, enc, content, idx, current_slot, current_pon, error>>
    /\ UNCHANGED envVars

\* lines 633-659: the statistics row and wb.save
ReportSave ==
    /\ rpc = "loop"
    /\ slot_num > MaxSlot
    /\ stat_cell' = total_idle_count
    /\ saved' = TRUE
    /\ rpc' = "done"
    /\ outputs' = [p \in DOMAIN outputs \cup {output_path} |->
                      IF p = output_path
                      THEN [ws |-> ws, stat_cell |-> total_idle_count]
                      ELSE outputs[p]]
    /\ UNCHANGED <<slot_num, ws, total_idle_count, output_path>>
    /\ UNCHANGED parseVars
    /\ UNCHANGED envVars

----------------------------------------------------------------------------
(* Inputs *)

\* documents of at most n lines over a vocabulary of lines
Docs(vocab, n) == UNION {[1..k -> vocab] : k \in 0..n}

EncodingSet == {Encodings[i] : i \in 1..Len(Encodings)}

\* files that decode to the same lines under every encoding, and the file that no
\* encoding decodes
Files(docs) ==
    {[e \in EncodingSet |-> [ok |-> TRUE, lines |-> d]] : d \in docs}
      \cup {[e \in EncodingSet |-> DecodeError]}

\* slot markers and PON headers in and out of range, and rows with each state token
Vocab ==
    {LineSlot3, LineSlot9, LineOlt5, LineOlt25, LineOlt0, LineUp, LineOffline,
     LineSilent, LineDisabled, LineLowerUp}

\* the lines of the end-to-end scenario, and column-header rows
VocabE2E ==
    {LineDisplaySlot3, LineDisSlot3, LineDashOlt5, LineOnuUp, LineOnuOffline,
     LineHeaderRow, LineNoiseUp}

\* counts a cell of an input table of the report may hold
CountValues == {0, 1, 2, 5}

CellA == <<3, 5>>

CellB == <<6, 24>>

\* tables that are zero outside CellA and CellB
ReportTables ==
    {[s \in Slots |-> [p \in Pons |->
        IF <<s, p>> = CellA THEN a
        ELSE IF <<s, p>> = CellB THEN b
        ELSE [k \in Keys |-> 0]]] :
     a \in [Keys -> CountValues], b \in [Keys -> CountValues]}

----------------------------------------------------------------------------
(* Specifications *)

\* no call of the v1.4 parse_epon_data
NoV14 ==
    v14 = [pc |-> "idle", enc |-> "None", content |-> NoContent, idx |-> 0,
           current_slot |-> None, current_pon |-> None,
           slot_data |-> EmptySlotData, error |-> "None"]

\* no call of parse_onu_data
NoOnu ==
    onu_call = [pc |-> "idle", ok |-> FALSE, lines |-> <<>>, i |-> 0,
                silent_mode |-> FALSE, silent_onus |-> {}, current_olt |-> <<>>,
                olt_stats |-> <<>>, result |-> <<>>, error |-> "None"]

\* the frame of ssh_collection_task when no thread has been started
NoTask == [pc |-> "idle", idx |-> 0, slot |-> 0, processed_count |-> 0]

\* the SSH panel after construction (lines 123-124 and 196-203) for a device list
SshPanel(devs) ==
    /\ devices = devs
    /\ task = NoTask
    /\ stop_flag = FALSE
    /\ ssh_btn = "normal"
    /\ stop_ssh_btn = "disabled"
    /\ after_queue = <<>>
    /\ conns = {}
    /\ disk = {}
    /\ attempted = {}
    /\ dialog = FALSE
    /\ live = 0
    /\ runs = 0
    /\ late_ops = 0

\* no SSH collection
NoSsh == SshPanel(<<>>)

\* the frame of get_full_output when it is not called
NoCall ==
    [pc |-> "idle", shell |-> FALSE, incoming |-> <<>>, timeout |-> 0, now |-> 0,
     end_time |-> 0, last_chunk_time |-> 0, output |-> <<>>, spaces |-> 0]

\* no call of get_full_output
NoOut == out_call = NoCall

\* none of the programs around the v2.1 parser and report runs
NoLater == NoV14 /\ NoOnu /\ NoSsh /\ NoOut

\* no task of process_task, no second call and no concurrent call
NoEnv ==
    /\ input_path = [isfile |-> TRUE, entries |-> <<>>]
    /\ files = <<>>
    /\ fi = 0
    /\ tpc = "idle"
    /\ calls = 1
    /\ first = [pc |-> "None", error |-> "None", slot_data |-> EmptySlotData]
    /\ threads = <<>>
    /\ NoLater

\* the state after lines 518-520 of parse_epon_data, for a file of `inputs`
InitParse(inputs) ==
    /\ file \in inputs
    /\ pc = "start"
    /\ enc = "None"
    /\ content = NoContent
    /\ idx = 0
    /\ current_slot = None
    /\ current_pon = None
    /\ slot_data = EmptySlotData
    /\ error = "None"
    /\ rpc = "idle"
    /\ slot_num = None
    /\ ws = [s \in {} |-> <<>>]
    /\ total_idle_count = 0
    /\ stat_cell = None
    /\ saved = FALSE
    /\ output_path = OUT_XLSX
    /\ outputs = [p \in {} |-> <<>>]
    /\ NoEnv

Init == InitParse(Files(Docs(Vocab, MaxLines)))

Next == ReadFile \/ ScanLine \/ Return

\* parse_epon_data on one file
Spec == Init /\ [][Next]_vars

InitE2E == InitParse(Files(Docs(VocabE2E, MaxLines)))

NextE2E == ReadFile \/ ScanLine \/ Return \/ ReportStart \/ ReportSlot \/ ReportSave

\* the body of the loop of process_task on one file: parse, then report
SpecE2E == InitE2E /\ [][NextE2E]_vars

\* generate_excel_report entered with a table of ReportTables
InitReport ==
    /\ file = [e \in EncodingSet |-> DecodeError]
    /\ pc = "returned"
    /\ enc = "None"
    /\ content = NoContent
    /\ idx = 0
    /\ current_slot = None
    /\ current_pon = None
    /\ slot_data \in ReportTables
    /\ error = "None"
    /\ rpc = "idle"
    /\ slot_num = None
    /\ ws = [s \in {} |-> <<>>]
    /\ total_idle_count = 0
    /\ stat_cell = None
    /\ saved = FALSE
    /\ output_path = OUT_XLSX
    /\ outputs = [p \in {} |-> <<>>]
    /\ NoEnv

NextReport == ReportStart \/ ReportSlot \/ ReportSave

SpecReport == InitReport /\ [][NextReport]_vars

----------------------------------------------------------------------------
(* process_task: the batch of files, and a repeated call of parse_epon_data *)

\* faulty variant of FreshLocals: the locals of the previous call are kept
StaleLocals ==
    [slot_data |-> EmptySlotData, current_slot |-> current_slot,
     current_pon |-> current_pon]

\* lines 518-519: the table and the two locals a call of parse_epon_data starts with
FreshLocals ==
    [slot_data |-> EmptySlotData, current_slot |-> None, current_pon |-> None]

\* the call self.parse_epon_data(file_path) of line 503, up to line 520
EnterParse(f) ==
    /\ file' = f
    /\ pc' = "start"
    /\ enc' = "None"
    /\ content' = NoContent
    /\ idx' = 0
    /\ slot_data' = FreshLocals.slot_data
    /\ current_slot' = FreshLocals.current_slot
    /\ current_pon' = FreshLocals.current_pon
    /\ error' = "None"

UpperCase ==
    <<"A", "B", "C", "D", "E", "F", "G", "H", "I", "J", "K", "L", "M",
      "N", "O", "P", "Q", "R", "S", "T", "U", "V", "W", "X", "Y", "Z">>

LowerCase ==
    <<"a", "b", "c", "d", "e", "f", "g", "h", "i", "j", "k", "l", "m",
      "n", "o", "p", "q", "r", "s", "t", "u", "v", "w", "x", "y", "z">>

\* str.lower
lower(s) ==
    [i \in 1..Len(s) |->
        IF \E k \in 1..Len(UpperCase) : UpperCase[k] = s[i]
        THEN LowerCase[CHOOSE k \in 1..Len(UpperCase) : UpperCase[k] = s[i]]
        ELSE s[i]]

\* str.endswith
endswith(s, suffix) ==
    /\ Len(s) >= Len(suffix)
    /\ SubSeq(s, Len(s) - Len(suffix) + 1, Len(s)) = suffix

\* line 497: the file itself, or the entries of the directory whose name ends in
\* ".txt" whatever the case, in the order of os.listdir
ListFiles(path) ==
    IF path.isfile
    THEN path.entries
    ELSE SelectSeq(path.entries, LAMBDA e : endswith(lower(e.name), DOT_TXT))

\* lines 497-499: the list of files; ValueError when it is empty
TaskStart ==
    /\ tpc = "idle"
    /\ files' = ListFiles(input_path)
    /\ fi' = 0
    /\ IF files' = <<>>
       THEN tpc' = "failed" /\ error' = "ValueError"
       ELSE tpc' = "loop" /\ error' = error
    /\ UNCHANGED <<file, pc, enc, content, idx, current_slot, current_pon, slot_data>>
    /\ UNCHANGED reportVars
    /\ UNCHANGED <<input_path, callVars, threadVars>>
    /\ UNCHANGED laterVars

\* line 500: the head of the loop, reached at first and after the report of the
\* previous file is saved; lines 507-509 when the list is exhausted
TaskNext ==
    /\ tpc = "loop"
    /\ fi = 0 \/ rpc = "done"
    /\ IF fi < Len(files)
       THEN /\ fi' = fi + 1
            /\ EnterParse(files[fi + 1].data)
            /\ rpc' = "idle"
            /\ tpc' = tpc
       ELSE /\ tpc' = "done"
            /\ UNCHANGED <<fi, rpc>>
            /\ UNCHANGED parseVars
    /\ UNCHANGED <<slot_num, ws, total_idle_count, stat_cell, saved, output_path, outputs>>
    /\ UNCHANGED <<input_path, files, callVars, threadVars>>
    /\ UNCHANGED laterVars

\* lines 510-511: an exception of parse_epon_data leaves the loop and is logged
TaskExcept ==
    /\ tpc = "loop"
    /\ pc = "raised"
    /\ tpc' = "failed"
    /\ UNCHANGED parseVars
    /\ UNCHANGED reportVars
    /\ UNCHANGED <<input_path, files, fi, callVars, threadVars>>
    /\ UNCHANGED laterVars

\* parse_epon_data is called on the same file once more
CallAgain ==
    /\ calls = 1
    /\ pc \in {"returned", "raised"}
    /\ first' = [pc |-> pc, error |-> error, slot_data |-> slot_data]
    /\ calls' = calls + 1
    /\ EnterParse(file)
    /\ UNCHANGED reportVars
    /\ UNCHANGED <<taskVars, threadVars>>
    /\ UNCHANGED laterVars

\* "a.txt", "b.TXT", "c.log"
NameA == <<"a", ".", "t", "x", "t">>

NameB == <<"b", ".", "T", "X", "T">>

NameC == <<"c", ".", "l", "o", "g">>

FileNames == {NameA, NameB, NameC}

\* a file of the given lines, the same under every encoding
TextFile(lines) == [e \in EncodingSet |-> [ok |-> TRUE, lines |-> lines]]

\* contents of a file of a batch: one no encoding decodes, one without lines, two
\* with an ONU on port 5 of slot 3, one with an ONU under an Olt3/0/25 header
FileContents ==
    {[e \in EncodingSet |-> DecodeError],
     TextFile(<<>>),
     TextFile(<<LineSlot3, LineOlt5, LineUp>>),
     TextFile(<<LineSlot3, LineOlt5, LineOffline>>),
     TextFile(<<LineSlot3, LineOlt25, LineUp>>)}

MaxFiles == 2

DirEntries == [name : FileNames, data : FileContents]

\* directory listings of at most n entries with different names
Listings(n) ==
    {l \in UNION {[1..k -> DirEntries] : k \in 0..n} :
        \A i, j \in 1..Len(l) : i # j => l[i].name # l[j].name}

\* what input_path can name: one file, or a directory
InputPaths ==
    {[isfile |-> TRUE, entries |-> <<e>>] : e \in DirEntries}
      \cup {[isfile |-> FALSE, entries |-> l] : l \in Listings(MaxFiles)}

InitBatch ==
    /\ input_path \in InputPaths
    /\ files = <<>>
    /\ fi = 0
    /\ tpc = "idle"
    /\ file = [e \in EncodingSet |-> DecodeError]
    /\ pc = "idle"
    /\ enc = "None"
    /\ content = NoContent
    /\ idx = 0
    /\ current_slot = None
    /\ current_pon = None
    /\ slot_data = EmptySlotData
    /\ error = "None"
    /\ rpc = "idle"
    /\ slot_num = None
    /\ ws = [s \in {} |-> <<>>]
    /\ total_idle_count = 0
    /\ stat_cell = None
    /\ saved = FALSE
    /\ output_path = OUT_XLSX
    /\ outputs = [p \in {} |-> <<>>]
    /\ calls = 1
    /\ first = [pc |-> "None", error |-> "None", slot_data |-> EmptySlotData]
    /\ threads = <<>>
    /\ NoLater

NextBatch ==
    \/ TaskStart
    \/ TaskNext
    \/ TaskExcept
    \/ ReadFile
    \/ ScanLine
    \/ Return
    \/ ReportStart
    \/ ReportSlot
    \/ ReportSave

\* process_task on a file or a directory
SpecBatch == InitBatch /\ [][NextBatch]_vars

\* markers, headers in and out of range, and rows, for a repeated call
VocabTwice == {LineSlot3, LineSlot9, LineOlt5, LineOlt25, LineUp, LineOffline}

InitTwice == InitParse(Files(Docs(VocabTwice, MaxLines)))

NextTwice == ReadFile \/ ScanLine \/ Return \/ CallAgain

\* parse_epon_data called twice on one file
SpecTwice == InitTwice /\ [][NextTwice]_vars

\* lines that fit several branches of the scan, and lines that fit none
VocabLines ==
    {LineSlot3, LineSlot4, LineOlt5, LineSlotOltUp, LineOltUp, LineUp, LineBlank,
     LineDashes, LineNoiseUp}

InitLines == InitParse(Files(Docs(VocabLines, MaxLines)))

NextLines == ReadFile \/ ScanLine \/ Return

\* parse_epon_data on files of lines that fit several branches
SpecLines == InitLines /\ [][NextLines]_vars

MaxReadLines == 2

\* what decoding the bytes of a file under one encoding gives: an error, or lines
DecodeOutcomes ==
    {DecodeError}
      \cup {[ok |-> TRUE, lines |-> d] : d \in Docs({LineSlot3, LineOlt5}, MaxReadLines)}

\* files whose bytes decode, or not, to different lines under each encoding
InitRead == InitParse([EncodingSet -> DecodeOutcomes])

NextRead == ReadFile \/ ScanLine \/ Return

\* parse_epon_data on files that the encodings read differently
SpecRead == InitRead /\ [][NextRead]_vars

----------------------------------------------------------------------------
(* Concurrent calls of parse_epon_data *)

\* lines 532-551 on the locals of one call: the locals after the stripped line,
\* and whether line 551 raised KeyError
ScanStep(loc, line) ==
    IF IsSlotMarker(line)
    THEN [current_slot |-> IF SlotNumber(line) # None THEN SlotNumber(line)
                           ELSE loc.current_slot,
          current_pon |-> loc.current_pon,
          slot_data |-> loc.slot_data,
          raised |-> FALSE]
    ELSE IF IsPonHeader(loc.current_slot, line)
    THEN [current_slot |-> loc.current_slot,
          current_pon |-> IF PonNumber(line) # None THEN PonNumber(line)
                          ELSE loc.current_pon,
          slot_data |-> loc.slot_data,
          raised |-> FALSE]
    ELSE IF IsCandidate(loc.current_slot, loc.current_pon, line) /\ LineKey(line) # "None"
    THEN IF NoCell(loc.current_slot, loc.current_pon)
         THEN [current_slot |-> loc.current_slot,
               current_pon |-> loc.current_pon,
               slot_data |-> loc.slot_data,
               raised |-> TRUE]
         ELSE [current_slot |-> loc.current_slot,
               current_pon |-> loc.current_pon,
               slot_data |-> Increment(loc.slot_data, loc.current_slot,
                                       loc.current_pon, LineKey(line)),
               raised |-> FALSE]
    ELSE [current_slot |-> loc.current_slot,
          current_pon |-> loc.current_pon,
          slot_data |-> loc.slot_data,
          raised |-> FALSE]

\* faulty variant of LocalsOf: every call works on the locals of the first call
LocalsOfFirst(t) == 1

\* the frame that holds slot_data, current_slot and current_pon of call t: they
\* are local variables of parse_epon_data, one set for each call
LocalsOf(t) == t

\* one iteration of the loop of lines 531-551 in call t
ThreadScan(t) ==
    /\ threads[t].pc = "scan"
    /\ threads[t].idx < Len(threads[t].lines)
    /\ LET o == LocalsOf(t)
           r == ScanStep([current_slot |-> threads[o].current_slot,
                          current_pon |-> threads[o].current_pon,
                          slot_data |-> threads[o].slot_data],
                         strip(threads[t].lines[threads[t].idx + 1]))
       IN  threads' =
             [u \in DOMAIN threads |->
                LET a == IF u = o
                         THEN [threads[u] EXCEPT !.current_slot = r.current_slot,
                                                 !.current_pon = r.current_pon,
                                                 !.slot_data = r.slot_data]
                         ELSE threads[u]
                IN  IF u # t THEN a
                    ELSE IF r.raised THEN [a EXCEPT !.pc = "raised", !.error = "KeyError"]
                    ELSE [a EXCEPT !.idx = @ + 1]]
    /\ UNCHANGED parseVars
    /\ UNCHANGED reportVars
    /\ UNCHANGED <<taskVars, callVars>>
    /\ UNCHANGED laterVars

\* line 552 in call t
ThreadReturn(t) ==
    /\ threads[t].pc = "scan"
    /\ threads[t].idx = Len(threads[t].lines)
    /\ threads' = [threads EXCEPT ![t].pc = "returned",
                                  ![t].result = threads[LocalsOf(t)].slot_data]
    /\ UNCHANGED parseVars
    /\ UNCHANGED reportVars
    /\ UNCHANGED <<taskVars, callVars>>
    /\ UNCHANGED laterVars

MaxThreadLines == 3

\* the lines of the two documents parsed at once
VocabThread1 == {LineSlot3, LineOlt5, LineUp}

VocabThread2 == {LineSlot4, LineOltUp}

\* a call of parse_epon_data that has read the lines and is at line 531
CallAt531(lines) ==
    [lines |-> lines, idx |-> 0, pc |-> "scan", error |-> "None",
     current_slot |-> None, current_pon |-> None, slot_data |-> EmptySlotData,
     result |-> <<>>]

InitThreads ==
    /\ \E d1 \in Docs(VocabThread1, MaxThreadLines) \ {<<>>} :
       \E d2 \in Docs(VocabThread2, MaxThreadLines) \ {<<>>} :
          threads = <<CallAt531(d1), CallAt531(d2)>>
    /\ file = [e \in EncodingSet |-> DecodeError]
    /\ pc = "idle"
    /\ enc = "None"
    /\ content = NoContent
    /\ idx = 0
    /\ current_slot = None
    /\ current_pon = None
    /\ slot_data = EmptySlotData
    /\ error = "None"
    /\ rpc = "idle"
    /\ slot_num = None
    /\ ws = [s \in {} |-> <<>>]
    /\ total_idle_count = 0
    /\ stat_cell = None
    /\ saved = FALSE
    /\ output_path = OUT_XLSX
    /\ outputs = [p \in {} |-> <<>>]
    /\ input_path = [isfile |-> TRUE, entries |-> <<>>]
    /\ files = <<>>
    /\ fi = 0
    /\ tpc = "idle"
    /\ calls = 1
    /\ first = [pc |-> "None", error |-> "None", slot_data |-> EmptySlotData]
    /\ NoLater

\* some call takes its next iteration
SomeThreadScan == \E t \in DOMAIN threads : ThreadScan(t)

\* some call returns
SomeThreadReturn == \E t \in DOMAIN threads : ThreadReturn(t)

NextThreads == SomeThreadScan \/ SomeThreadReturn

\* two calls of parse_epon_data on two documents, their iterations interleaved
SpecThreads == InitThreads /\ [][NextThreads]_vars

\* rows with a state token at each position, and rows the data branch passes over
VocabTokens ==
    {LineSlot3, LineOlt5, LineUp, LineOffline, LineOnlyUp, LineBlank, LineDashUp,
     LineLastUp, LineFirstUp}

InitTokens == InitParse(Files(Docs(VocabTokens, MaxLines)))

NextTokens == ReadFile \/ ScanLine \/ Return

\* parse_epon_data on files of rows with the state token at different positions
SpecTokens == InitTokens /\ [][NextTokens]_vars

----------------------------------------------------------------------------
(* Properties of parse_epon_data *)

\* the scan is about to consume a line
Scanning == pc = "scan" /\ idx < Len(content.lines)

\* the raw line the scan consumes next
NextLine == content.lines[idx + 1]

\* the table with `n` added to counter `key` of cell (s, p)
Plus(sd, s, p, key, n) ==
    [a \in Slots |-> [b \in Pons |-> [k \in Keys |->
        IF a = s /\ b = p /\ k = key THEN sd[a][b][k] + n ELSE sd[a][b][k]]]]

\* C1: at every step of the scan and in the returned table, the table has exactly
\* the 144 cells slot 2..7 x port 1..24, each holding the three counts online,
\* offline, silent, all non-negative integers.
C1_TableTotal ==
    slot_data \in [2..7 -> [1..24 -> [{"online", "offline", "silent"} -> Nat]]]

\* a table with a counted ONU has been returned
C1_Witness == pc = "returned" /\ slot_data[3][5]["online"] >= 1

\* C2: a document that decodes but has zero lines parses without failure to the
\* all-zero table, and parse_epon_data raises its ValueError only when no encoding
\* decodes the document.
C2_EmptyInputParses ==
    /\ (pc # "start" /\ (\E e \in EncodingSet : file[e].ok /\ file[e].lines = <<>>))
          => (pc # "raised" /\ error = "None" /\ slot_data = EmptySlotData)
    /\ (pc = "raised" /\ error = "ValueError")
          => (\A e \in EncodingSet : ~file[e].ok)

\* C3: with currentSlot valid and currentPort set outside 1..24, a data line with a
\* recognised state token is discarded: no counter changes, nothing is raised and
\* the scan goes on to the next line.
C3_OutOfRangePonDiscarded ==
    [][(/\ Scanning
        /\ current_slot \in Slots
        /\ current_pon # None
        /\ current_pon \notin Pons
        /\ NextLine \in {LineUp, LineOffline, LineSilent})
       => (slot_data' = slot_data /\ pc' = "scan" /\ error' = "None" /\ idx' = idx + 1)]_vars

\* the most recent slot marker among the consumed lines is the one for slot 9
UnderSlot9 ==
    \E k \in 1..idx :
        /\ content.lines[k] = LineSlot9
        /\ \A j \in (k + 1)..idx : content.lines[j] # LineSlot3

\* C4: a slot marker for slot 9 leaves currentSlot unset, and every data line that
\* follows it, up to the next in-range slot marker, changes no counter and raises
\* nothing, also when currentPort was set by an earlier in-range slot section.
C4_OutOfRangeSlotIgnored ==
    [][/\ (Scanning /\ NextLine = LineSlot9) => current_slot' = None
       /\ (/\ Scanning
           /\ UnderSlot9
           /\ NextLine \in {LineUp, LineOffline, LineSilent, LineDisabled, LineLowerUp})
          => (slot_data' = slot_data /\ pc' = "scan" /\ error' = "None")]_vars

\* C6: for a data line processed with valid currentSlot and currentPort, the token
\* "Up" adds 1 to online, "Offline" adds 1 to offline and "Silent" adds 1 to silent
\* of cell (currentSlot, currentPort) and nothing else changes; the tokens
\* "Disabled" and "up" change no counter.
C6_StateTokenMapping ==
    [][(Scanning /\ current_slot \in Slots /\ current_pon \in Pons)
       => /\ NextLine = LineUp
               => slot_data' = Plus(slot_data, current_slot, current_pon, "online", 1)
          /\ NextLine = LineOffline
               => slot_data' = Plus(slot_data, current_slot, current_pon, "offline", 1)
          /\ NextLine = LineSilent
               => slot_data' = Plus(slot_data, current_slot, current_pon, "silent", 1)
          /\ NextLine \in {LineDisabled, LineLowerUp}
               => slot_data' = slot_data]_vars

\* a "Silent" row has just been counted in cell (3, 5)
C6_Witness ==
    /\ pc = "scan"
    /\ idx >= 1
    /\ content.lines[idx] = LineSilent
    /\ current_slot = 3
    /\ current_pon = 5
    /\ slot_data[3][5]["silent"] = 1

----------------------------------------------------------------------------
(* Properties of the end-to-end scenario *)

\* the four-line input as the claim gives it
ScenarioDisplay == <<LineDisplaySlot3, LineDashOlt5, LineOnuUp, LineOnuOffline>>

\* the four-line input with the slot marker spelled as the parser expects it
ScenarioDis == <<LineDisSlot3, LineDashOlt5, LineOnuUp, LineOnuOffline>>

\* cell (3, 5) is (1, 1, 0) and every other cell is (0, 0, 0); in the report slot 3
\* is the only slot with data, PON 5 is not idle and every other PON of it is
ScenarioResult ==
    /\ slot_data = Plus(Plus(EmptySlotData, 3, 5, "online", 1), 3, 5, "offline", 1)
    /\ \A s \in Slots, p \in Pons :
          (slot_data[s][p]["online"] = 0) <=> (<<s, p>> # <<3, 5>>)
    /\ rpc = "done"
          => /\ DOMAIN ws = {3}
             /\ ws[3][5] = [online |-> 1, offline |-> 1, silent |-> 0, idle |-> "no"]
             /\ \A p \in Pons \ {5} :
                   ws[3][p] = [online |-> 0, offline |-> 0, silent |-> 0, idle |-> "yes"]

\* C5 as stated: the input that starts with "display onu slot 3" yields (1,1,0) for
\* cell (3,5), not idle, slot 3 with data, every other cell (0,0,0) and idle.
C5_ScenarioDisplay ==
    (pc = "returned" /\ content.lines = ScenarioDisplay) => ScenarioResult

\* C5 amended: the input that starts with "dis onu slot 3" yields (1,1,0) for cell
\* (3,5), not idle, slot 3 with data, every other cell (0,0,0) and idle.
C5_ScenarioDis ==
    (pc = "returned" /\ content.lines = ScenarioDis) => ScenarioResult

\* the report of the amended scenario has been written
C5_Witness == rpc = "done" /\ content.lines = ScenarioDis

\* C7: a line that contains one of the column-header keywords State, MAC, LOID,
\* LLID, Port increments no counter and raises nothing, in any parse state, even
\* when its second-to-last token is a recognised state token.
C7_HeaderRowsInert ==
    [][(/\ Scanning
        /\ \E k \in {KW_State, KW_MAC, KW_LOID, KW_LLID, KW_Port} : Contains(NextLine, k))
       => (slot_data' = slot_data /\ pc' = "scan" /\ error' = "None")]_vars

\* the row "MAC Up 1" was consumed under slot 3, PON 5 and counted nothing
C7_Witness ==
    /\ pc = "scan"
    /\ idx >= 1
    /\ content.lines[idx] = LineNoiseUp
    /\ current_slot = 3
    /\ current_pon = 5
    /\ slot_data = EmptySlotData

----------------------------------------------------------------------------
(* Properties of generate_excel_report *)

\* some PON of slot s has a non-zero online, offline or silent count
SlotHasCounts(s) == \E p \in 1..24, k \in {"online", "offline", "silent"} : slot_data[s][p][k] # 0

C9_IdleOverWholeGrid ==
    rpc = "done"
       => stat_cell = Cardinality({c \in (2..7) \X (1..24) : slot_data[c[1]][c[2]]["online"] = 0})

\* C9 amended: the total idle count equals the number of cells whose online count
\* is 0 among the slots that have data; the PONs of a slot without data are not
\* counted.
C9_IdleOverSlotsWithData ==
    rpc = "done"
       => stat_cell = Cardinality({c \in (2..7) \X (1..24) :
                                      SlotHasCounts(c[1]) /\ slot_data[c[1]][c[2]]["online"] = 0})

\* a slot with an online ONU and a slot without data: 23 idle PONs are reported
C9_Witness ==
    /\ rpc = "done"
    /\ slot_data[3][5]["online"] = 2
    /\ ~SlotHasCounts(6)
    /\ stat_cell = 23

\* C10: a slot the report has passed has a block in the worksheet exactly when one
\* of its 24 PONs has a non-zero online, offline or silent count.
C10_RenderedIffHasData ==
    rpc \in {"loop", "done"}
       => \A s \in 2..7 : s < slot_num => ((s \in DOMAIN ws) <=> SlotHasCounts(s))

\* slot 3 is rendered for offline ONUs only while slot 6, without data, is not
C10_Witness ==
    /\ rpc = "done"
    /\ slot_data[3][5] = [online |-> 0, offline |-> 1, silent |-> 0]
    /\ DOMAIN ws = {3}

----------------------------------------------------------------------------
(* Properties of repeated calls and of process_task *)

\* a call of parse_epon_data has ended, by return or by exception
Ended == pc \in {"returned", "raised"}

\* C11: a second call of parse_epon_data on the same lines ends as the first call
\* did, with the same table and the same exception if any: nothing of the first
\* call (current_slot, current_pon, counters) is left for the second.
C11_SecondCallSameTable ==
    (calls = 2 /\ Ended)
        => /\ pc = first.pc
           /\ error = first.error
           /\ slot_data = first.slot_data

\* the second call has returned a table with a counted ONU
C11_Witness == calls = 2 /\ pc = "returned" /\ slot_data[3][5]["online"] >= 1

\* process_task is over
TaskOver == tpc \in {"done", "failed"}

\* no encoding decodes the file
Undecodable(f) == \A e \in EncodingSet : ~f[e].ok

\* files that parse_epon_data parses to a table when given alone
GoodFiles ==
    {TextFile(<<LineSlot3, LineOlt5, LineUp>>),
     TextFile(<<LineSlot3, LineOlt5, LineOffline>>)}

\* C12: when process_task is over, every good file that comes in the batch after a
\* file no encoding decodes has its report in the output directory.
C12_UnreadableDoesNotBlock ==
    TaskOver =>
        \A i, j \in 1..Len(files) :
            (i < j /\ Undecodable(files[i].data) /\ files[j].data \in GoodFiles)
                => OutputFilename(files[j].name) \in DOMAIN outputs

\* the file decodes under some encoding to at least one line
Readable(f) == \E e \in EncodingSet : f[e].ok /\ f[e].lines # <<>>

\* C20: when process_task is over on files that are all readable, the output
\* directory holds one report for each file and no other.
C20_OneReportPerDocument ==
    (TaskOver /\ \A i \in 1..Len(files) : Readable(files[i].data))
        => /\ \A i \in 1..Len(files) : OutputFilename(files[i].name) \in DOMAIN outputs
           /\ Cardinality(DOMAIN outputs) = Len(files)

----------------------------------------------------------------------------
(* Properties of the branches of the scan *)

\* the line the scan consumes next, as the branches see it (line 532)
Stripped == strip(NextLine)

\* the next line holds the slot marker token
MarkerLine == Contains(Stripped, SLOT_MARKER)

\* the next line is not a marker line and passes the test of line 538
HeaderLine ==
    /\ ~MarkerLine
    /\ current_slot \in Slots
    /\ Contains(Stripped, OLT)
    /\ Contains(Stripped, SLASH_0_SLASH)

\* the next line is neither and holds one of the keywords of line 544
NoiseLine ==
    /\ ~MarkerLine
    /\ ~HeaderLine
    /\ \E k \in {KW_State, KW_MAC, KW_LOID, KW_LLID, KW_Port} : Contains(Stripped, k)

\* C13: a step of the scan on a line that holds the slot marker token changes
\* neither current_pon nor the table, whatever else the line holds; on a line
\* taken as PON header it changes neither current_slot nor the table; on a noise
\* line it changes nothing but the position.
C13_BranchPriority ==
    [][Scanning =>
          /\ MarkerLine => (current_pon' = current_pon /\ slot_data' = slot_data)
          /\ HeaderLine => (current_slot' = current_slot /\ slot_data' = slot_data)
          /\ NoiseLine => UNCHANGED <<current_slot, current_pon, slot_data>>
          /\ idx' = idx + 1]_vars

\* a line that is slot marker, PON header and data row at once was consumed in
\* section (3, 5): it changed the slot alone
C13_Witness ==
    /\ pc = "returned"
    /\ content.lines = <<LineSlot3, LineOlt5, LineSlotOltUp>>
    /\ current_slot = 4
    /\ current_pon = 5
    /\ slot_data = EmptySlotData

\* number of lines the scan has worked on, the one that raised included
Worked == IF pc = "raised" /\ error = "KeyError" THEN idx + 1 ELSE idx

\* C14: as long as no line holding the slot marker token has been worked on,
\* current_slot and current_pon are None, every counter is 0 and no line has
\* raised an exception.
C14_InertBeforeFirstMarker ==
    (\A i \in 1..Worked : ~Contains(strip(content.lines[i]), SLOT_MARKER))
        => /\ current_slot = None
           /\ current_pon = None
           /\ slot_data = EmptySlotData
           /\ error # "KeyError"

\* a PON header and a data row were consumed before a first slot marker
C14_Witness ==
    /\ pc = "scan"
    /\ idx = 3
    /\ content.lines = <<LineOlt5, LineOltUp, LineUp, LineSlot3>>
    /\ slot_data = EmptySlotData

\* the marker line of slot 3 or 4
SlotLine(s) == IF s = 3 THEN LineSlot3 ELSE LineSlot4

\* C15: after the marker of slot a, the header of port 5, the marker of slot b
\* and one row with state Up, the parse returns the table whose only count is
\* online = 1 in cell (b, 5).
C15_MarkerKeepsPort ==
    \A a, b \in {3, 4} :
        (pc = "returned" /\ content.lines = <<SlotLine(a), LineOlt5, SlotLine(b), LineUp>>)
            => /\ current_pon = 5
               /\ slot_data = Plus(EmptySlotData, b, 5, "online", 1)

\* the row after the marker of slot 4 was counted on the port of slot 3's section
C15_Witness ==
    /\ pc = "returned"
    /\ content.lines = <<LineSlot3, LineOlt5, LineSlot4, LineUp>>
    /\ slot_data[4][5]["online"] = 1
    /\ slot_data[3][5]["online"] = 0

\* C16: current_slot and current_pon are None when the parse starts; a step
\* changes current_slot only on a line holding the slot marker token and
\* current_pon only on a line taken as PON header; steps on those two kinds of
\* line leave the table unchanged.
C16_SectionStateFrame ==
    [][/\ pc = "start" => (current_slot = None /\ current_pon = None)
       /\ current_slot' # current_slot => (Scanning /\ MarkerLine)
       /\ current_pon' # current_pon => (Scanning /\ HeaderLine)
       /\ (Scanning /\ (MarkerLine \/ HeaderLine)) => slot_data' = slot_data]_vars

\* blank, separator, noise and data lines were consumed in section (3, 5) and the
\* section is still (3, 5)
C16_Witness ==
    /\ pc = "returned"
    /\ \E l \in {LineBlank, LineDashes, LineNoiseUp, LineUp} :
          content.lines = <<LineSlot3, LineOlt5, l, LineUp>>
    /\ current_slot = 3
    /\ current_pon = 5

----------------------------------------------------------------------------
(* Properties of generate_excel_report on the table *)

\* C17: no step of generate_excel_report changes the table it was given: the 144
\* count triples stay as parse_epon_data returned them and no cell is added or
\* removed.
C17_ReportLeavesTable ==
    [][(pc = "returned" /\ rpc \in {"idle", "loop"}) => slot_data' = slot_data]_vars

\* a report with slot 3 rendered has been saved from a table with counts
C17_Witness ==
    /\ rpc = "done"
    /\ saved
    /\ 3 \in DOMAIN ws
    /\ slot_data[3][5]["online"] >= 1
    /\ slot_data[6][24]["offline"] >= 1

----------------------------------------------------------------------------
(* Properties of the encoding loop *)

\* the loop of lines 521-527 has ended on encoding e with the lines it decodes
ReadAs(e) == enc = e /\ content = [none |-> FALSE, lines |-> file[e].lines]

\* C18: once the file is read, the lines are those of utf-8 if utf-8 decodes the
\* file, else those of gbk if gbk decodes it, else those of gb2312 if gb2312
\* decodes it, and the loop has stopped at that encoding; if none decodes it the
\* parse has raised ValueError and never returns a table.
C18_EncodingOrder ==
    pc # "start" =>
        /\ file["utf-8"].ok => ReadAs("utf-8")
        /\ (~file["utf-8"].ok /\ file["gbk"].ok) => ReadAs("gbk")
        /\ (~file["utf-8"].ok /\ ~file["gbk"].ok /\ file["gb2312"].ok) => ReadAs("gb2312")
        /\ (~file["utf-8"].ok /\ ~file["gbk"].ok /\ ~file["gb2312"].ok)
              => (pc = "raised" /\ error = "ValueError" /\ content.none)

\* utf-8 failed, gbk and gb2312 decode the file differently, and the lines of gbk
\* are being scanned
C18_Witness ==
    /\ ~file["utf-8"].ok
    /\ file["gbk"].ok
    /\ file["gb2312"].ok
    /\ file["gbk"].lines # file["gb2312"].lines
    /\ pc = "returned"
    /\ content.lines = file["gbk"].lines
    /\ current_slot = 3

----------------------------------------------------------------------------
(* Properties of concurrent calls *)

\* the locals of a call that runs alone, after the first n of the lines
RECURSIVE Alone(_, _)
Alone(lines, n) ==
    IF n = 0
    THEN [current_slot |-> None, current_pon |-> None, slot_data |-> EmptySlotData,
          raised |-> FALSE]
    ELSE LET before == Alone(lines, n - 1)
         IN  IF before.raised THEN before ELSE ScanStep(before, strip(lines[n]))

\* C19: each of two calls whose iterations interleave returns the table that a
\* call running alone on the same lines returns.
C19_InterleavedAsAlone ==
    \A t \in DOMAIN threads :
        threads[t].pc = "returned"
            => /\ ~Alone(threads[t].lines, Len(threads[t].lines)).raised
               /\ threads[t].result
                    = Alone(threads[t].lines, Len(threads[t].lines)).slot_data

\* both calls have returned, the first with a count in cell (3, 5) while the
\* second was in section (4, 7)
C19_Witness ==
    /\ Len(threads) = 2
    /\ threads[1].pc = "returned"
    /\ threads[2].pc = "returned"
    /\ threads[1].result[3][5]["online"] = 1
    /\ threads[2].current_slot = 4
    /\ threads[2].current_pon = 7
    /\ threads[2].result = EmptySlotData

\* ScanLine takes the step that ScanStep computes
ScanLineIsScanStep ==
    [][Scanning =>
          LET r == ScanStep([current_slot |-> current_slot, current_pon |-> current_pon,
                             slot_data |-> slot_data], strip(NextLine))
          IN  /\ current_slot' = r.current_slot
              /\ current_pon' = r.current_pon
              /\ slot_data' = r.slot_data
              /\ r.raised <=> (pc' = "raised" /\ error' = "KeyError")
              /\ ~r.raised <=> (idx' = idx + 1 /\ pc' = pc)]_vars

----------------------------------------------------------------------------
(* Properties of the data branch of the scan *)

\* the whitespace-separated parts of the next line, as line 546 computes them
Parts == split(Stripped)

\* the next line has a recognised state token as its second-to-last part
StateAtSecondToLast ==
    /\ Len(Parts) >= 2
    /\ Parts[Len(Parts) - 1] \in {TOK_Up, TOK_Offline, TOK_Silent}

\* C22: a step of the scan leaves every counter as it is, and raises nothing,
\* when the line has fewer than two parts, is empty, begins with '-', or has a
\* second-to-last part that is not Up, Offline or Silent, wherever else such a
\* token stands in the line; so it does on the lines "Up", "", "- Up 1",
\* "a 1 Up" and "Up a 1".
C22_StateTokenSecondToLast ==
    [][Scanning =>
          ((\/ Len(Parts) < 2
            \/ Stripped = <<>>
            \/ Stripped[1] = "-"
            \/ ~StateAtSecondToLast
            \/ NextLine \in {LineOnlyUp, LineBlank, LineDashUp, LineLastUp, LineFirstUp})
              => (slot_data' = slot_data /\ idx' = idx + 1))]_vars

\* in section (3, 5), "- Up 1" and "a 1 Up" were consumed and counted nothing
C22_Witness ==
    /\ pc = "returned"
    /\ content.lines = <<LineSlot3, LineOlt5, LineDashUp, LineLastUp>>
    /\ current_slot = 3
    /\ current_pon = 5
    /\ slot_data = EmptySlotData

\* the counters of the table that are not 0
NonZero(sd) == {c \in Slots \X Pons \X Keys : sd[c[1]][c[2]][c[3]] # 0}

\* sum of the counters of the cells of C
RECURSIVE SumOver(_, _)
SumOver(sd, C) ==
    IF C = {} THEN 0
    ELSE LET c == CHOOSE x \in C : TRUE
         IN  sd[c[1]][c[2]][c[3]] + SumOver(sd, C \ {c})

\* sum of all counters of the table
Total(sd) == SumOver(sd, NonZero(sd))

\* C23: a step of the scan leaves the table as it is or adds exactly 1 to one
\* counter of one cell, the cell of the current section; no counter goes down,
\* and after k lines the sum of all counters is at most k.
C23_OneIncrementPerLine ==
    [][/\ Scanning =>
            \/ slot_data' = slot_data
            \/ \E k \in Keys :
                  slot_data' = Plus(slot_data, current_slot, current_pon, k, 1)
       /\ Total(slot_data') <= idx']_vars

\* two rows were counted in a document of four lines
C23_Witness ==
    /\ pc = "returned"
    /\ idx = 4
    /\ Total(slot_data) = 2
    /\ slot_data[3][5]["online"] = 1
    /\ slot_data[3][5]["offline"] = 1

----------------------------------------------------------------------------
(* The v1.4 parse_epon_data, run on the file the v2.1 parser is given *)

\* lines 125-127 of v1.4: the call and its first three assignments
V14Call ==
    /\ v14.pc = "idle"
    /\ v14' = [v14 EXCEPT !.pc = "start", !.slot_data = EmptySlotData,
                          !.current_slot = None, !.current_pon = None,
                          !.content = NoContent]
    /\ UNCHANGED exceptV14

\* lines 128-134 of v1.4: the encoding loop and the check of content
V14Read ==
    /\ v14.pc = "start"
    /\ LET tried == <<"utf-8", "gbk", "gb2312">>
           good == {i \in 1..Len(tried) : file[tried[i]].ok}
           e == IF good = {} THEN tried[Len(tried)] ELSE tried[SetMin(good)]
           c == IF good = {} THEN NoContent
                ELSE [none |-> FALSE, lines |-> file[e].lines]
       IN  v14' = IF c.none \/ c.lines = <<>>
                  THEN [v14 EXCEPT !.enc = e, !.content = c,
                                   !.pc = "raised", !.error = "ValueError"]
                  ELSE [v14 EXCEPT !.enc = e, !.content = c, !.pc = "scan"]
    /\ UNCHANGED exceptV14

\* faulty variant of ScanStepV14: the port header test does not look at the slot
ScanStepV14AnySlot(loc, line) ==
    IF Contains(line, SLOT_MARKER)
    THEN [loc EXCEPT !.current_slot = IF SlotNumber(line) # None
                                      THEN SlotNumber(line) ELSE @]
    ELSE IF Contains(line, OLT) /\ Contains(line, SLASH_0_SLASH)
    THEN [loc EXCEPT !.current_pon = IF PonNumber(line) # None
                                     THEN PonNumber(line) ELSE @]
    ELSE IF /\ Truthy(loc.current_slot) /\ Truthy(loc.current_pon)
            /\ line # <<>> /\ ~startswith(line, <<"-">>)
            /\ ~\E k \in {KW_State, KW_MAC, KW_LOID, KW_LLID, KW_Port} : Contains(line, k)
            /\ Len(split(line)) >= 2
            /\ StateKey(split(line)[Len(split(line)) - 1]) # "None"
    THEN IF loc.current_slot \notin Slots \/ loc.current_pon \notin Pons
         THEN [loc EXCEPT !.raised = TRUE]
         ELSE [loc EXCEPT !.slot_data[loc.current_slot][loc.current_pon]
                               [StateKey(split(line)[Len(split(line)) - 1])] = @ + 1]
    ELSE loc

\* lines 137-152 of v1.4 on the stripped line: the locals after the line, and
\* whether line 152 raised KeyError
ScanStepV14(loc, line) ==
    IF Contains(line, SLOT_MARKER)
    THEN [loc EXCEPT !.current_slot = IF SlotNumber(line) # None
                                      THEN SlotNumber(line) ELSE @]
    ELSE IF /\ Truthy(loc.current_slot)
            /\ 2 <= loc.current_slot /\ loc.current_slot <= 7
            /\ Contains(line, OLT) /\ Contains(line, SLASH_0_SLASH)
    THEN [loc EXCEPT !.current_pon = IF PonNumber(line) # None
                                     THEN PonNumber(line) ELSE @]
    ELSE IF /\ Truthy(loc.current_slot) /\ Truthy(loc.current_pon)
            /\ line # <<>> /\ ~startswith(line, <<"-">>)
            /\ ~\E k \in {KW_State, KW_MAC, KW_LOID, KW_LLID, KW_Port} : Contains(line, k)
            /\ Len(split(line)) >= 2
            /\ StateKey(split(line)[Len(split(line)) - 1]) # "None"
    THEN IF loc.current_slot \notin Slots \/ loc.current_pon \notin Pons
         THEN [loc EXCEPT !.raised = TRUE]
         ELSE [loc EXCEPT !.slot_data[loc.current_slot][loc.current_pon]
                               [StateKey(split(line)[Len(split(line)) - 1])] = @ + 1]
    ELSE loc

\* lines 136-152 of v1.4: one iteration of the loop over content
V14Scan ==
    /\ v14.pc = "scan"
    /\ v14.idx < Len(v14.content.lines)
    /\ LET r == ScanStepV14([current_slot |-> v14.current_slot,
                             current_pon |-> v14.current_pon,
                             slot_data |-> v14.slot_data,
                             raised |-> FALSE],
                            strip(v14.content.lines[v14.idx + 1]))
       IN  v14' = IF r.raised
                  THEN [v14 EXCEPT !.pc = "raised", !.error = "KeyError"]
                  ELSE [v14 EXCEPT !.idx = @ + 1,
                                   !.current_slot = r.current_slot,
                                   !.current_pon = r.current_pon,
                                   !.slot_data = r.slot_data]
    /\ UNCHANGED exceptV14

\* line 153 of v1.4: return slot_data
V14Return ==
    /\ v14.pc = "scan"
    /\ v14.idx = Len(v14.content.lines)
    /\ v14' = [v14 EXCEPT !.pc = "returned"]
    /\ UNCHANGED exceptV14

VocabV14 == {LineSlot3, LineSlot9, LineOlt5, LineUp, LineHeaderRow}

InitV14 == InitParse(Files(Docs(VocabV14, MaxLines)))

NextV14 == ReadFile \/ ScanLine \/ Return \/ V14Call \/ V14Read \/ V14Scan \/ V14Return

\* both versions of parse_epon_data on one file, each at its own pace
SpecV14 == InitV14 /\ [][NextV14]_vars

\* the call is past its encoding loop
PastRead(p) == p \in {"scan", "returned", "raised"}

\* C29: the v1.4 and the v2.1 parse_epon_data read the same content, hold the same
\* current_slot, current_pon and slot_data whenever they have consumed the same
\* number of lines, and end at the same line in the same way: both return the
\* same table or both raise the same exception
C29_V14Equivalent ==
    (PastRead(pc) /\ PastRead(v14.pc)) =>
        /\ v14.enc = enc /\ v14.content = content
        /\ v14.idx = idx =>
              /\ v14.current_slot = current_slot
              /\ v14.current_pon = current_pon
              /\ v14.slot_data = slot_data
        /\ (pc # "scan" /\ v14.pc # "scan") =>
              /\ v14.pc = pc
              /\ v14.error = error
              /\ v14.idx = idx

C29_Witness ==
    /\ pc = "returned" /\ v14.pc = "returned"
    /\ content.lines = <<LineSlot3, LineOlt5, LineUp, LineHeaderRow>>
    /\ v14.idx = 4 /\ v14.slot_data[3][5]["online"] = 1
    /\ v14.slot_data = slot_data

----------------------------------------------------------------------------
(* The historical script onu_status_counter.py: parse_onu_data *)

\* "dis onu silent"
SILENT_CMD == <<"d", "i", "s", " ", "o", "n", "u", " ", "s", "i", "l", "e", "n", "t">>

\* "---------------------------------- Olt"
SILENT_END == <<"-", "-", "-", "-", "-", "-", "-", "-", "-", "-", "-", "-", "-", "-", "-", "-", "-", "-", "-", "-", "-", "-", "-", "-", "-", "-", "-", "-", "-", "-", "-", "-", "-", "-", " ", "O", "l", "t">>

\* "Onu"
ONU == <<"O", "n", "u">>

\* "-- "
OLT_OPEN == <<"-", "-", " ">>

\* " --"
OLT_CLOSE == <<" ", "-", "-">>

\* "ONUs found:"
ONUS_FOUND == <<"O", "N", "U", "s", " ", "f", "o", "u", "n", "d", ":">>

\* "dis onu silent\n"
LineDisSilent == <<"d", "i", "s", " ", "o", "n", "u", " ", "s", "i", "l", "e", "n", "t", "\n">>

\* "---------------------------------- Olt3/0/5 --\n"
LineOltBanner5 == <<"-", "-", "-", "-", "-", "-", "-", "-", "-", "-", "-", "-", "-", "-", "-", "-", "-", "-", "-", "-", "-", "-", "-", "-", "-", "-", "-", "-", "-", "-", "-", "-", "-", "-", " ", "O", "l", "t", "3", "/", "0", "/", "5", " ", "-", "-", "\n">>

\* "aaaa-bbbb-cccc Onu3/0/5:1 Up 1\n"
LineRowUp5 == <<"a", "a", "a", "a", "-", "b", "b", "b", "b", "-", "c", "c", "c", "c", " ", "O", "n", "u", "3", "/", "0", "/", "5", ":", "1", " ", "U", "p", " ", "1", "\n">>

\* "aaaa-bbbb-cccd Onu3/0/5:2\n"
LineRowSilent5a == <<"a", "a", "a", "a", "-", "b", "b", "b", "b", "-", "c", "c", "c", "d", " ", "O", "n", "u", "3", "/", "0", "/", "5", ":", "2", "\n">>

\* "aaaa-bbbb-ccce Onu3/0/5:3\n"
LineRowSilent5b == <<"a", "a", "a", "a", "-", "b", "b", "b", "b", "-", "c", "c", "c", "e", " ", "O", "n", "u", "3", "/", "0", "/", "5", ":", "3", "\n">>

\* "ONUs found: 1\n"
LineOnusFound == <<"O", "N", "U", "s", " ", "f", "o", "u", "n", "d", ":", " ", "1", "\n">>

\* "Olt3/0/5"
PortOlt5 == <<"O", "l", "t", "3", "/", "0", "/", "5">>

\* bound of the model: longest file given to parse_onu_data, in lines
MaxOnuLines == 5

\* the characters of \w (ASCII)
WordChars ==
    Digits \cup {UpperCase[k] : k \in 1..Len(UpperCase)}
           \cup {LowerCase[k] : k \in 1..Len(LowerCase)} \cup {"_"}

\* current_olt = None
NoOlt == <<>>

\* \w{4}-\w{4}-\w{4} matches at the start of the line
MacAtStart(line) ==
    /\ Len(line) >= 14
    /\ \A k \in 1..14 : IF k \in {5, 10} THEN line[k] = "-" ELSE line[k] \in WordChars

\* \d+/\d+/\d+ at position j: the last index of the match, 0 when there is none
PortRunEnd(line, j) ==
    LET d1 == RunEnd(line, j, Digits)
        d2 == RunEnd(line, d1 + 2, Digits)
        d3 == RunEnd(line, d2 + 2, Digits)
    IN  IF /\ d1 >= j /\ d1 + 1 <= Len(line) /\ line[d1 + 1] = "/"
           /\ d2 >= d1 + 2 /\ d2 + 1 <= Len(line) /\ line[d2 + 1] = "/"
           /\ d3 >= d2 + 2
        THEN d3 ELSE 0

\* (Onu\d+/\d+/\d+):\d+ matches at position i
OnuPortMatchAt(line, i) ==
    /\ StartsAt(line, i, ONU)
    /\ LET e == PortRunEnd(line, i + Len(ONU))
       IN  /\ e # 0
           /\ e + 2 <= Len(line)
           /\ line[e + 1] = ":"
           /\ line[e + 2] \in Digits

\* re.match(r'\w{4}-\w{4}-\w{4}\s+Onu', line)
IsOnuRow(line) ==
    /\ MacAtStart(line)
    /\ LET w == RunEnd(line, 15, WhiteSpace)
       IN  w >= 15 /\ StartsAt(line, w + 1, ONU)

\* re.match(r'\w{4}-\w{4}-\w{4}\s+Onu\d+/\d+/\d+:\d+', line)
IsSilentRow(line) ==
    /\ MacAtStart(line)
    /\ LET w == RunEnd(line, 15, WhiteSpace)
       IN  w >= 15 /\ OnuPortMatchAt(line, w + 1)

\* re.search(r'(Onu\d+/\d+/\d+):\d+', line).group(1), NoOlt without a match
SilentPort(line) ==
    LET at == {i \in 1..Len(line) : OnuPortMatchAt(line, i)}
    IN  IF at = {} THEN NoOlt
        ELSE SubSeq(line, SetMin(at), PortRunEnd(line, SetMin(at) + Len(ONU)))

\* -- (Olt\d+/\d+/\d+) -- matches at position i
OltHeaderAt(line, i) ==
    /\ StartsAt(line, i, OLT_OPEN)
    /\ StartsAt(line, i + Len(OLT_OPEN), OLT)
    /\ LET e == PortRunEnd(line, i + Len(OLT_OPEN) + Len(OLT))
       IN  e # 0 /\ StartsAt(line, e + 1, OLT_CLOSE)

\* re.search(r'-- (Olt\d+/\d+/\d+) --', line).group(1), NoOlt without a match
OltHeader(line) ==
    LET at == {i \in 1..Len(line) : OltHeaderAt(line, i)}
    IN  IF at = {} THEN NoOlt
        ELSE SubSeq(line, SetMin(at) + Len(OLT_OPEN),
                    PortRunEnd(line, SetMin(at) + Len(OLT_OPEN) + Len(OLT)))

\* \s+(Up|Offline)\s+ matches at position i with the given state
StateMatchAt(line, i, state) ==
    /\ line[i] \in WhiteSpace
    /\ LET r == RunEnd(line, i, WhiteSpace)
       IN  /\ StartsAt(line, r + 1, state)
           /\ r + Len(state) + 1 <= Len(line)
           /\ line[r + Len(state) + 1] \in WhiteSpace

\* re.search(r'\s+(Up|Offline)\s+', line).group(1), "None" without a match
RowState(line) ==
    LET at == {i \in 1..Len(line) :
                  StateMatchAt(line, i, TOK_Up) \/ StateMatchAt(line, i, TOK_Offline)}
    IN  IF at = {} THEN "None"
        ELSE IF StateMatchAt(line, SetMin(at), TOK_Up) THEN "Up" ELSE "Offline"

RECURSIVE replace(_, _, _)
\* s.replace(old, new)
replace(s, old, new) ==
    IF s = <<>> THEN <<>>
    ELSE IF StartsAt(s, 1, old)
    THEN new \o replace(SubSeq(s, Len(old) + 1, Len(s)), old, new)
    ELSE <<s[1]>> \o replace(Tail(s), old, new)

\* olt_stats[port][state] += 1 on the defaultdict
CountState(stats, port, state) ==
    [q \in DOMAIN stats \cup {port} |->
        LET old == IF q \in DOMAIN stats THEN stats[q]
                   ELSE [Up |-> 0, Offline |-> 0, Silent |-> 0]
        IN  IF q = port THEN [old EXCEPT ![state] = @ + 1] ELSE old]

\* lines 48-54: the file is opened and read; a failure is caught at lines 99-101
OnuOpen ==
    /\ onu_call.pc = "open"
    /\ onu_call' = IF onu_call.ok
                   THEN [onu_call EXCEPT !.pc = "silent_scan", !.i = 0,
                                         !.silent_onus = {}, !.silent_mode = FALSE]
                   ELSE [onu_call EXCEPT !.pc = "returned", !.error = "Exception",
                                         !.result = <<>>]
    /\ UNCHANGED exceptOnu

\* lines 55-68: one iteration of the loop that collects the silent ONUs
OnuSilentScan ==
    /\ onu_call.pc = "silent_scan"
    /\ onu_call.i < Len(onu_call.lines)
    /\ LET line == onu_call.lines[onu_call.i + 1]
       IN  IF Contains(line, SILENT_CMD)
           THEN onu_call' = [onu_call EXCEPT !.silent_mode = TRUE, !.i = @ + 1]
           ELSE LET mode == onu_call.silent_mode /\ ~Contains(line, SILENT_END)
                    port == SilentPort(line)
                IN  onu_call' =
                      [onu_call EXCEPT
                         !.silent_mode = mode,
                         !.silent_onus = IF mode /\ IsSilentRow(line) /\ port # NoOlt
                                         THEN @ \cup {port} ELSE @,
                         !.i = @ + 1]
    /\ UNCHANGED exceptOnu

\* line 71: the first loop is over, the second loop starts
OnuSilentDone ==
    /\ onu_call.pc = "silent_scan"
    /\ onu_call.i = Len(onu_call.lines)
    /\ onu_call' = [onu_call EXCEPT !.pc = "scan", !.i = 0]
    /\ UNCHANGED exceptOnu

\* lines 71-88: one iteration of the loop that counts the Up and Offline rows
OnuScan ==
    /\ onu_call.pc = "scan"
    /\ onu_call.i < Len(onu_call.lines)
    /\ LET line == onu_call.lines[onu_call.i + 1]
           olt == OltHeader(line)
       IN  IF olt # NoOlt
           THEN onu_call' = [onu_call EXCEPT !.current_olt = olt, !.i = @ + 1]
           ELSE onu_call' =
                  [onu_call EXCEPT
                     !.olt_stats = IF /\ onu_call.current_olt # NoOlt
                                      /\ IsOnuRow(line)
                                      /\ RowState(line) # "None"
                                   THEN CountState(@, onu_call.current_olt, RowState(line))
                                   ELSE @,
                     !.current_olt = IF startswith(strip(line), ONUS_FOUND)
                                     THEN NoOlt ELSE @,
                     !.i = @ + 1]
    /\ UNCHANGED exceptOnu

\* lines 91-95: every port of silent_onus that olt_stats already holds gets one
\* more Silent
OnuMerge ==
    /\ onu_call.pc = "scan"
    /\ onu_call.i = Len(onu_call.lines)
    /\ onu_call' =
         [onu_call EXCEPT
            !.pc = "merged",
            !.olt_stats =
               [q \in DOMAIN @ |->
                  [@[q] EXCEPT !.Silent =
                     @ + Cardinality({p \in onu_call.silent_onus :
                                         replace(p, ONU, OLT) = q})]]]
    /\ UNCHANGED exceptOnu

\* line 97: return olt_stats
OnuReturn ==
    /\ onu_call.pc = "merged"
    /\ onu_call' = [onu_call EXCEPT !.pc = "returned", !.result = onu_call.olt_stats]
    /\ UNCHANGED exceptOnu

VocabOnu ==
    {LineDisSilent, LineOltBanner5, LineRowUp5, LineRowSilent5a, LineRowSilent5b,
     LineOnusFound}

\* the v2.1 parser and its report are not running
NoParse ==
    /\ file = [e \in EncodingSet |-> DecodeError]
    /\ pc = "idle"
    /\ enc = "None"
    /\ content = NoContent
    /\ idx = 0
    /\ current_slot = None
    /\ current_pon = None
    /\ slot_data = EmptySlotData
    /\ error = "None"
    /\ rpc = "idle"
    /\ slot_num = None
    /\ ws = [s \in {} |-> <<>>]
    /\ total_idle_count = 0
    /\ stat_cell = None
    /\ saved = FALSE
    /\ output_path = OUT_XLSX
    /\ outputs = [p \in {} |-> <<>>]

\* parse_onu_data is called on a file that utf-8 decodes or not
InitOnu ==
    /\ \E d \in Docs(VocabOnu, MaxOnuLines), ok \in BOOLEAN :
          /\ ok \/ d = <<>>
          /\ onu_call = [pc |-> "open", ok |-> ok, lines |-> d, i |-> 0,
                         silent_mode |-> FALSE, silent_onus |-> {},
                         current_olt |-> NoOlt, olt_stats |-> <<>>,
                         result |-> <<>>, error |-> "None"]
    /\ NoParse
    /\ input_path = [isfile |-> TRUE, entries |-> <<>>]
    /\ files = <<>>
    /\ fi = 0
    /\ tpc = "idle"
    /\ calls = 1
    /\ first = [pc |-> "None", error |-> "None", slot_data |-> EmptySlotData]
    /\ threads = <<>>
    /\ NoV14
    /\ NoSsh
    /\ NoOut

NextOnu == OnuOpen \/ OnuSilentScan \/ OnuSilentDone \/ OnuScan \/ OnuMerge \/ OnuReturn

SpecOnu == InitOnu /\ [][NextOnu]_vars

\* line k of the file lies in the 'dis onu silent' section: after a line with
\* the command and before the next Olt banner
InSilentSection(k) ==
    \E j \in 1..(k - 1) :
        /\ Contains(onu_call.lines[j], SILENT_CMD)
        /\ \A m \in (j + 1)..k : ~Contains(onu_call.lines[m], SILENT_END)

\* the ONU rows that the 'dis onu silent' section lists for the port
SilentRowsOf(port) ==
    {k \in 1..Len(onu_call.lines) :
        /\ InSilentSection(k)
        /\ IsSilentRow(onu_call.lines[k])
        /\ replace(SilentPort(onu_call.lines[k]), ONU, OLT) = port}

\* the Silent count that the returned statistics hold for the port
SilentCountOf(port) ==
    IF port \in DOMAIN onu_call.result THEN onu_call.result[port].Silent ELSE 0

\* C21: when parse_onu_data has returned the statistics of a file, the Silent
\* count of a port is the number of ONU rows that the 'dis onu silent' section
\* lists for that port
C21_SilentCountIsRows ==
    (onu_call.pc = "returned" /\ onu_call.error = "None") =>
        SilentCountOf(PortOlt5) = Cardinality(SilentRowsOf(PortOlt5))

----------------------------------------------------------------------------
(* SSH collection: start_ssh_collection, stop_ssh_collection and the thread  *)
(* ssh_collection_task.  The thread and the Tk main thread interleave at the *)
(* statements that read or write stop_flag, the buttons and the callback     *)
(* queue of root.after; a call of connect, of get_full_output or the save of *)
(* one file is one step of the thread.                                       *)

\* bounds of the model: longest device list, and number of collections started
MaxDevices == 2

MaxRuns == 2

\* first and last slot of range(2, 8) at line 415
FirstCmdSlot == 2

LastCmdSlot == 7

\* how a device behaves: it answers every command; connect raises; the first
\* get_full_output raises on the open connection; the output file cannot be
\* opened for writing
DeviceKinds == {"good", "refuses", "drops", "unwritable"}

DeviceLists == UNION {[1..n -> DeviceKinds] : n \in 1..MaxDevices}

\* faulty variant of ButtonAfterStart: the start button stays enabled
ButtonAfterStartNormal == "normal"

\* line 371: self.ssh_btn.config(state=tk.DISABLED, ...)
ButtonAfterStart == "disabled"

\* faulty variant of StopAtSlot: the slot loop does not look at the flag
StopAtSlotIgnored(flag) == FALSE

\* line 417: if self.stop_flag
StopAtSlot(flag) == flag

\* faulty variant of AfterDeviceError: the handler leaves the device loop
AfterDeviceErrorBreak == "final_check"

\* line 453: continue, the loop of line 395 goes on with the next device
AfterDeviceError == "check_dev"

\* 1 when the step begins while stop_flag is set
Late == IF stop_flag THEN 1 ELSE 0

\* lines 328-380: a click on the start button with valid parameters
StartClick ==
    /\ ssh_btn = "normal"
    /\ runs < MaxRuns
    /\ stop_flag' = FALSE
    /\ ssh_btn' = ButtonAfterStart
    /\ stop_ssh_btn' = "normal"
    /\ task' = [pc |-> "check_dev", idx |-> 0, slot |-> 0, processed_count |-> 0]
    /\ live' = live + 1
    /\ runs' = runs + 1
    /\ disk' = {}
    /\ attempted' = {}
    /\ dialog' = FALSE
    /\ late_ops' = 0
    /\ UNCHANGED <<devices, after_queue, conns>>
    /\ UNCHANGED exceptSsh

\* lines 382-387: a click on the stop button
StopClick ==
    /\ stop_ssh_btn = "normal"
    /\ stop_flag' = TRUE
    /\ stop_ssh_btn' = "disabled"
    /\ UNCHANGED <<devices, task, ssh_btn, after_queue, conns, disk, attempted, dialog,
                   live, runs, late_ops>>
    /\ UNCHANGED exceptSsh

\* Tk runs the oldest callback queued with root.after(0, ...)
RunCallback ==
    /\ after_queue # <<>>
    /\ after_queue' = Tail(after_queue)
    /\ ssh_btn' = IF Head(after_queue) = "ssh_btn_normal" THEN "normal" ELSE ssh_btn
    /\ stop_ssh_btn' = IF Head(after_queue) = "stop_ssh_btn_disabled" THEN "disabled"
                       ELSE stop_ssh_btn
    /\ dialog' = IF Head(after_queue) = "showinfo" THEN TRUE ELSE dialog
    /\ UNCHANGED <<devices, task, stop_flag, conns, disk, attempted, live, runs, late_ops>>
    /\ UNCHANGED exceptSsh

\* lines 395-401: the next device of the list, and the check of stop_flag
TaskCheckDev ==
    /\ task.pc = "check_dev"
    /\ task' = IF task.idx = Len(devices)
               THEN [task EXCEPT !.pc = "final_check"]
               ELSE IF stop_flag
               THEN [task EXCEPT !.idx = @ + 1, !.pc = "final_check"]
               ELSE [task EXCEPT !.idx = @ + 1, !.pc = "connect"]
    /\ UNCHANGED <<devices, stop_flag, ssh_btn, stop_ssh_btn, after_queue, conns, disk,
                   attempted, dialog, live, runs, late_ops>>
    /\ UNCHANGED exceptSsh

\* lines 403-412: the connection is made, or connect raises and lines 451-453 run
TaskConnect ==
    /\ task.pc = "connect"
    /\ attempted' = attempted \cup {task.idx}
    /\ late_ops' = late_ops + Late
    /\ IF devices[task.idx] = "refuses"
       THEN /\ task' = [task EXCEPT !.pc = AfterDeviceError]
            /\ conns' = conns
       ELSE /\ task' = [task EXCEPT !.pc = "check_slot", !.slot = FirstCmdSlot]
            /\ conns' = conns \cup {task.idx}
    /\ UNCHANGED <<devices, stop_flag, ssh_btn, stop_ssh_btn, after_queue, disk, dialog,
                   live, runs>>
    /\ UNCHANGED exceptSsh

\* lines 415-419: the next slot of range(2, 8), and the check of stop_flag
TaskCheckSlot ==
    /\ task.pc = "check_slot"
    /\ task' = IF task.slot > LastCmdSlot \/ StopAtSlot(stop_flag)
               THEN [task EXCEPT !.pc = "save"]
               ELSE [task EXCEPT !.pc = "send"]
    /\ UNCHANGED <<devices, stop_flag, ssh_btn, stop_ssh_btn, after_queue, conns, disk,
                   attempted, dialog, live, runs, late_ops>>
    /\ UNCHANGED exceptSsh

\* lines 421-440: the command of the slot is sent and its output collected, or
\* get_full_output raises and lines 451-453 run
TaskSend ==
    /\ task.pc = "send"
    /\ late_ops' = late_ops + Late
    /\ task' = IF devices[task.idx] = "drops"
               THEN [task EXCEPT !.pc = AfterDeviceError]
               ELSE [task EXCEPT !.pc = "check_slot", !.slot = @ + 1]
    /\ UNCHANGED <<devices, stop_flag, ssh_btn, stop_ssh_btn, after_queue, conns, disk,
                   attempted, dialog, live, runs>>
    /\ UNCHANGED exceptSsh

\* lines 443-449: the file is written, the connection closed and the device
\* counted, or open raises and lines 451-453 run
TaskSave ==
    /\ task.pc = "save"
    /\ IF devices[task.idx] = "unwritable"
       THEN /\ task' = [task EXCEPT !.pc = AfterDeviceError]
            /\ UNCHANGED <<disk, conns>>
       ELSE /\ disk' = disk \cup {task.idx}
            /\ conns' = conns \ {task.idx}
            /\ task' = [task EXCEPT !.processed_count = @ + 1, !.pc = "after_check"]
    /\ UNCHANGED <<devices, stop_flag, ssh_btn, stop_ssh_btn, after_queue, attempted,
                   dialog, live, runs, late_ops>>
    /\ UNCHANGED exceptSsh

\* lines 456-457: the check of stop_flag after a device
TaskAfterCheck ==
    /\ task.pc = "after_check"
    /\ task' = [task EXCEPT !.pc = IF stop_flag THEN "final_check" ELSE "check_dev"]
    /\ UNCHANGED <<devices, stop_flag, ssh_btn, stop_ssh_btn, after_queue, conns, disk,
                   attempted, dialog, live, runs, late_ops>>
    /\ UNCHANGED exceptSsh

\* lines 459-466: the summary is logged and stop_flag read for the dialog
TaskFinalCheck ==
    /\ task.pc = "final_check"
    /\ task' = [task EXCEPT !.pc = IF stop_flag THEN "cleanup" ELSE "schedule_dialog"]
    /\ UNCHANGED <<devices, stop_flag, ssh_btn, stop_ssh_btn, after_queue, conns, disk,
                   attempted, dialog, live, runs, late_ops>>
    /\ UNCHANGED exceptSsh

\* lines 467-468: the completion dialog and the opening of the directory are queued
TaskDialog ==
    /\ task.pc = "schedule_dialog"
    /\ after_queue' = after_queue \o <<"showinfo", "startfile">>
    /\ late_ops' = late_ops + Late
    /\ task' = [task EXCEPT !.pc = "cleanup"]
    /\ UNCHANGED <<devices, stop_flag, ssh_btn, stop_ssh_btn, conns, disk, attempted,
                   dialog, live, runs>>
    /\ UNCHANGED exceptSsh

\* lines 473-476: the finally block queues the three callbacks, and the thread ends
TaskCleanup ==
    /\ task.pc = "cleanup"
    /\ after_queue' = after_queue \o <<"ssh_btn_normal", "stop_ssh_btn_disabled",
                                       "status_ready">>
    /\ task' = [task EXCEPT !.pc = "ended"]
    /\ live' = live - 1
    /\ UNCHANGED <<devices, stop_flag, ssh_btn, stop_ssh_btn, conns, disk, attempted,
                   dialog, runs, late_ops>>
    /\ UNCHANGED exceptSsh

InitSsh ==
    /\ \E devs \in DeviceLists : SshPanel(devs)
    /\ NoParse
    /\ input_path = [isfile |-> TRUE, entries |-> <<>>]
    /\ files = <<>>
    /\ fi = 0
    /\ tpc = "idle"
    /\ calls = 1
    /\ first = [pc |-> "None", error |-> "None", slot_data |-> EmptySlotData]
    /\ threads = <<>>
    /\ NoV14
    /\ NoOnu
    /\ NoOut

NextSsh ==
    \/ StartClick
    \/ StopClick
    \/ RunCallback
    \/ TaskCheckDev
    \/ TaskConnect
    \/ TaskCheckSlot
    \/ TaskSend
    \/ TaskSave
    \/ TaskAfterCheck
    \/ TaskFinalCheck
    \/ TaskDialog
    \/ TaskCleanup

\* the SSH panel: clicks, the collection thread and the callbacks of Tk
SpecSsh == InitSsh /\ [][NextSsh]_vars

\* the thread has left the loop over the devices
LoopLeft == task.pc \in {"final_check", "schedule_dialog", "cleanup", "ended"}

\* the thread is not inside the try block of a device
BetweenDevices == task.pc \in {"idle", "check_dev", "after_check"} \/ LoopLeft

C26_ConnectionsClosed == BetweenDevices => conns = {}

C24_NothingAfterStop == late_ops = 0

\* C24: once stop_flag is set the thread begins at most one more operation, the
\* connect, the command or the queueing of the dialog whose check of the flag
\* (line 397, 417 or 466) had already passed
C24_AtMostOneAfterStop == late_ops <= 1

C24_Witness ==
    /\ task.pc = "ended" /\ stop_flag /\ late_ops = 1
    /\ devices = <<"good", "good">> /\ task.idx = 1 /\ task.slot = 4 /\ disk = {1}

----------------------------------------------------------------------------
(* SSHConnection.get_full_output.  Time is counted in tenths of a second and *)
(* advances only in the calls of time.sleep; the device is a list of chunks, *)
(* each with the gap after which shell.recv_ready() becomes true.            *)

\* "More"
MORE == <<"M", "o", "r", "e">>

\* "----"
DASHES == <<"-", "-", "-", "-">>

\* "a Up 1\r\n"
ChunkRows == <<"a", " ", "U", "p", " ", "1", "\r", "\n">>

\* "ONUs found: 1\r\n"
ChunkFound == <<"O", "N", "U", "s", " ", "f", "o", "u", "n", "d", ":", " ", "1", "\r", "\n">>

\* "a Up 1\r\nONUs fo"
ChunkFoundHead == <<"a", " ", "U", "p", " ", "1", "\r", "\n", "O", "N", "U", "s", " ", "f", "o">>

\* "und: 1\r\n"
ChunkFoundTail == <<"u", "n", "d", ":", " ", "1", "\r", "\n">>

\* "---- More ----"
ChunkMore == <<"-", "-", "-", "-", " ", "M", "o", "r", "e", " ", "-", "-", "-", "-">>

\* bound of the model: number of chunks the device sends
MaxChunks == 2

\* time.sleep(0.1), time.sleep(0.3) and time.sleep(0.5), in tenths of a second
SleepPoll == 1

SleepMore == 3

SleepDrain == 5

\* the 5 seconds of line 96
IdleWindow == 50

\* chunk[-50:]
TailLen == 50

\* the timeout of the call: 30 seconds as at line 424, or 2 seconds
Timeouts == {20, 300}

\* a chunk arrives at once, after 2 seconds or after 6 seconds
Gaps == {0, 20, 60}

Chunks == {ChunkRows, ChunkFound, ChunkFoundHead, ChunkFoundTail, ChunkMore}

DeviceOutputs ==
    UNION {[1..n -> [gap : Gaps, data : Chunks]] : n \in 0..MaxChunks}

\* self.shell.recv_ready()
recv_ready(c) ==
    /\ c.incoming # <<>>
    /\ c.now >= c.last_chunk_time + Head(c.incoming).gap

\* s[-n:]
LastChars(s, n) == IF Len(s) <= n THEN s ELSE SubSeq(s, Len(s) - n + 1, Len(s))

\* lines 66-72: the command is sent, or the shell is missing and the call raises
OutSend ==
    /\ out_call.pc = "call"
    /\ out_call' = IF out_call.shell
                   THEN [out_call EXCEPT !.pc = "poll", !.output = <<>>,
                                         !.end_time = out_call.now + out_call.timeout,
                                         !.last_chunk_time = out_call.now]
                   ELSE [out_call EXCEPT !.pc = "raised"]
    /\ UNCHANGED exceptOut

\* lines 74 and 101: the timeout has elapsed, the output is returned
OutTimeout ==
    /\ out_call.pc = "poll"
    /\ out_call.now >= out_call.end_time
    /\ out_call' = [out_call EXCEPT !.pc = "returned"]
    /\ UNCHANGED exceptOut

\* lines 75-99: an iteration that receives a chunk
OutRecv ==
    /\ out_call.pc = "poll"
    /\ out_call.now < out_call.end_time
    /\ recv_ready(out_call)
    /\ LET chunk == Head(out_call.incoming).data
           got == [out_call EXCEPT !.output = @ \o chunk,
                                   !.incoming = Tail(@),
                                   !.last_chunk_time = out_call.now]
       IN  out_call' =
             IF Contains(chunk, ONUS_FOUND)
             THEN [got EXCEPT !.now = @ + SleepDrain, !.pc = "drain"]
             ELSE IF Contains(chunk, MORE) \/ Contains(LastChars(chunk, TailLen), DASHES)
             THEN [got EXCEPT !.spaces = @ + 1, !.now = @ + SleepMore]
             ELSE [got EXCEPT !.now = @ + SleepPoll]
    /\ UNCHANGED exceptOut

\* lines 75 and 96-99: an iteration without data: the idle window has passed and
\* the output is returned, or the loop sleeps
OutWait ==
    /\ out_call.pc = "poll"
    /\ out_call.now < out_call.end_time
    /\ ~recv_ready(out_call)
    /\ out_call' = IF out_call.now - out_call.last_chunk_time > IdleWindow
                   THEN [out_call EXCEPT !.pc = "returned"]
                   ELSE [out_call EXCEPT !.now = @ + SleepPoll]
    /\ UNCHANGED exceptOut

\* lines 85-87: what has arrived meanwhile is appended, then the output returned
OutDrain ==
    /\ out_call.pc = "drain"
    /\ out_call' = IF recv_ready(out_call)
                   THEN [out_call EXCEPT !.output = @ \o Head(out_call.incoming).data,
                                         !.incoming = Tail(@)]
                   ELSE [out_call EXCEPT !.pc = "returned"]
    /\ UNCHANGED exceptOut

InitOutput ==
    /\ \E sh \in BOOLEAN, t \in Timeouts, d \in DeviceOutputs :
          out_call = [pc |-> "call", shell |-> sh, incoming |-> d, timeout |-> t,
                      now |-> 0, end_time |-> 0, last_chunk_time |-> 0,
                      output |-> <<>>, spaces |-> 0]
    /\ NoParse
    /\ input_path = [isfile |-> TRUE, entries |-> <<>>]
    /\ files = <<>>
    /\ fi = 0
    /\ tpc = "idle"
    /\ calls = 1
    /\ first = [pc |-> "None", error |-> "None", slot_data |-> EmptySlotData]
    /\ threads = <<>>
    /\ NoV14
    /\ NoOnu
    /\ NoSsh

NextOutput == OutSend \/ OutTimeout \/ OutRecv \/ OutWait \/ OutDrain

\* one call of get_full_output against a device
SpecOutput == InitOutput /\ [][NextOutput]_vars

\* the statements of the call are executed one after the other until it returns
SpecOutputFair == SpecOutput /\ WF_vars(NextOutput)

\* every call returns or, without a shell, raises
OutputTerminates == <>(out_call.pc \in {"returned", "raised"})

\* C28: while get_full_output is still in its loop, the output received so far
\* does not contain the completion marker 'ONUs found:': the call leaves the
\* loop in the iteration in which the marker is complete
C28_ReturnsAtMarker ==
    out_call.pc = "poll" => ~Contains(out_call.output, ONUS_FOUND)


====
